---- MODULE Spec2Model ----
(***************************************************************************)
(* Model of the ChatGroup realtime core: the Socket.io session handler     *)
(* (server/src/socket/handler.ts), the AI wake-up workflow                 *)
(* (handleAIWakeup), the wake-word detector and completion client          *)
(* (services/ai.ts) and the routes that write the rows the handler reads.  *)
(*                                                                         *)
(* Node runs every handler on one event loop: a handler runs without       *)
(* interruption from one `await` to the next.  Each action below is one    *)
(* such run-to-next-await segment: it starts when the awaited operation    *)
(* settles (resolves or rejects) and ends where the handler awaits again   *)
(* or returns.                                                             *)
(***************************************************************************)
EXTENDS Integers, Sequences, FiniteSets, TLC

\* ------------------------------------------------------------------ bounds
\* How many send_message events the clients emit when only the send handlers run
\* (RaceSpec), how many when the AI workflow runs too (Spec, SignalSpec), and how
\* many authenticate events.
MaxSends == 2
MaxFlowSends == 1
MaxAuths == 2
\* How many typing_start / typing_stop / mark_read events the clients emit, and how
\* many of them when the AI workflow runs too (SignalSpec).
MaxReqs == 2
MaxFlowReqs == 1
\* How many messages a chat holds before the first event (ContextSpec).
MaxPrior == 2
\* The longest message body the wake-word detector is applied to (DetectSpec).
MaxLen == 5
MaxHistory == 31
MaxCalls == 3

\* ------------------------------------------------------------------ domains
Users == {"u1", "u2", "u3"}
Conns == {"s1", "s2"}
Chats == {"c1"}

\* The token each client holds: s1 is u1's browser, s2 is u2's; u3 is offline.
ClientToken(c) == IF c = "s1" THEN "u1" ELSE "u2"
ClientUsers == {ClientToken(c) : c \in Conns}

NoUser == "null"
NoConn == "none"
NoChat == "none"
BadToken == "bad"
Tokens == Users \cup {BadToken}

SendIds == 1..MaxSends
AuthIds == 1..MaxAuths
ReqIds == 1..MaxReqs
CallIds == 1..MaxCalls

\* The users of the friends routes, and the (senderId, receiverId) pairs, unique
\* by the index FriendRequest_senderId_receiverId_key.
FriendUsers == {"u1", "u2"}
RequestIds == {id \in FriendUsers \X FriendUsers : id[1] # id[2]}

\* Message bodies are strings, modelled as tuples of one-character strings.
PlainText == <<"h", "i">>
WakeText == <<"@", "A", "i", " ", "x">>
Contents == {PlainText, WakeText}

\* The request bodies of PUT /api/ai/config: with and without each required field,
\* with a registered provider of either wire format and with an unknown one.
ConfigBodies ==
    [provider : {"deepseek", "claude", "bogus", ""}, model : {"m", ""},
     apiKey : {<<>>, <<"s", "k", "-", "1">>, <<"s", "k", "-", "1", "2", "3", "4", "5", "6", "7">>},
     baseUrl : {"", "http://proxy"}]

\* Every body of at most MaxLen characters over the characters of the wake word in
\* both cases, the blank and one more letter.
Alphabet == {"@", "a", "A", "i", "I", " ", "x"}
Bodies == UNION {[1..n -> Alphabet] : n \in 0..MaxLen}

\* data.type of send_message when the client leaves it out.
NoType == ""

\* CREATE TYPE "MessageType" AS ENUM ('TEXT', 'SYSTEM', 'AI_SUMMARY')
MessageTypes == {"TEXT", "SYSTEM", "AI_SUMMARY"}

\* What a client may put in data.type: nothing, a value of the enum, or another
\* string.
Types == {NoType, "TEXT", "SYSTEM", "AI_SUMMARY", "IMAGE"}

\* ------------------------------------------------------------------ services/ai.ts
AI_WAKE_WORD == <<"@", "a", "i">>

IsSpace(ch) == ch \in {" ", "\t", "\n"}

RECURSIVE TrimStart(_)
TrimStart(s) ==
    IF s = <<>> THEN <<>>
    ELSE IF IsSpace(Head(s)) THEN TrimStart(Tail(s)) ELSE s

RECURSIVE TrimEnd(_)
TrimEnd(s) ==
    IF s = <<>> THEN <<>>
    ELSE IF IsSpace(s[Len(s)]) THEN TrimEnd(SubSeq(s, 1, Len(s) - 1)) ELSE s

Trim(s) == TrimEnd(TrimStart(s))

LowerChar(ch) ==
    CASE ch = "A" -> "a"
      [] ch = "I" -> "i"
      [] ch = "H" -> "h"
      [] ch = "X" -> "x"
      [] OTHER -> ch

ToLowerCase(s) == [i \in 1..Len(s) |-> LowerChar(s[i])]

\* Mutant of StartsWith: the token found anywhere in the text (includes).
StartsWith_Includes(s, p) ==
    \E k \in 0..Len(s) : Len(s) >= k + Len(p) /\ SubSeq(s, k + 1, k + Len(p)) = p

StartsWith(s, p) == Len(s) >= Len(p) /\ SubSeq(s, 1, Len(p)) = p

Slice(s, n) == SubSeq(s, n + 1, Len(s))

\* string | null: hit = FALSE stands for null.
extractAICommand(content) ==
    LET trimmed == Trim(content) IN
    IF StartsWith(ToLowerCase(trimmed), AI_WAKE_WORD)
    THEN [hit |-> TRUE, command |-> Trim(Slice(trimmed, Len(AI_WAKE_WORD)))]
    ELSE [hit |-> FALSE, command |-> <<>>]

\* ------------------------------------------------------------------ state
VARIABLES
    userId,        \* per connection: the closure variable `userId` (null until authenticate)
    joined,        \* per connection: the chats whose room `chat:<id>` the socket has joined
    onlineUsers,   \* socketStore.onlineUsers: userId -> socket id
    members,       \* ChatMember rows: <<userId, chatId>>
    messages,      \* Message rows in creation order; a message's id is its index
    updatedAt,     \* per chat: number of writes of Chat.updatedAt
    aiConfig,      \* UserAIConfig rows: userId -> config or NoConfig
    aiSummaries,   \* AISummary rows, in creation order
    auths,         \* the authenticate handler runs
    sends,         \* the send_message handler runs
    runs,          \* the handleAIWakeup runs; run h is the one started by send h
    events,        \* what io.to(room).emit delivered, in emission order
    lastSignal,    \* the last typing / typing_stop signal delivered by socket.to(room)
    connected,     \* per connection: the socket has not disconnected yet
    closes,        \* per connection: the run of its disconnect handler
    reqs,          \* the typing_start / typing_stop / mark_read handler runs
    lastReadAt,    \* per ChatMember row: number of writes of lastReadAt
    lastReply,     \* the last HTTP response of GET / PUT /api/ai/config
    friendRequests, \* FriendRequest rows by (senderId, receiverId): their status
    directChats,   \* the DIRECT chats created by accepting a friend request
    httpCalls      \* the runs of the handlers of the friends routes

vars == <<userId, joined, onlineUsers, members, messages, updatedAt, aiConfig,
          aiSummaries, auths, sends, runs, events, lastSignal,
          connected, closes, reqs, lastReadAt, lastReply,
          friendRequests, directChats, httpCalls>>

\* baseUrl: baseUrl || null
NoBaseUrl == "null"

\* API keys, as tuples of characters: one no longer than the eight characters the
\* responses show, one longer.
ShortKey == <<"s", "k", "-", "1">>
LongKey == <<"s", "k", "-", "1", "2", "3", "4", "5", "6", "7">>

NoConfig == [provider |-> "none", model |-> "", apiKey |-> <<>>, baseUrl |-> NoBaseUrl]
\* The local `aiConfig` of a run before findUnique has returned.
PendingConfig == [provider |-> "pending", model |-> "", apiKey |-> <<>>, baseUrl |-> NoBaseUrl]
DeepSeekConfig ==
    [provider |-> "deepseek", model |-> "deepseek-chat", apiKey |-> LongKey,
     baseUrl |-> NoBaseUrl]

\* The body of PUT /api/ai/config that stores DeepSeekConfig.
DeepSeekBody ==
    [provider |-> "deepseek", model |-> "deepseek-chat", apiKey |-> LongKey, baseUrl |-> ""]

\* res.json({ config: null }) and a response without config (an error).
NullView == [provider |-> "null", model |-> "", apiKey |-> <<>>, baseUrl |-> NoBaseUrl]
NoBody == [provider |-> "", model |-> "", apiKey |-> <<>>, baseUrl |-> ""]

\* A response of the AI-config endpoints, with the request it answers.
NoReply == [route |-> "none", user |-> NoUser, body |-> NoBody, status |-> "", config |-> NullView]

NoSignal == [ev |-> "none", chat |-> NoChat, user |-> NoUser, to |-> {}]

\* A run of the authenticate handler: the token it was given, the userId it
\* verified, and the events it emitted (error / authenticated to the socket,
\* user_online to every other socket).
IdleAuth ==
    [pc |-> "idle", conn |-> NoConn, token |-> "", quser |-> NoUser, emitted |-> <<>>,
     rooms |-> {}, ackTo |-> {}, onlineTo |-> {}]

IdleSend ==
    [pc |-> "idle", conn |-> NoConn, chat |-> NoChat, content |-> <<>>, type |-> "",
     quser |-> NoUser, sender |-> NoUser, message |-> 0, errors |-> 0]

IdleRun ==
    [pc |-> "idle", triggerUserId |-> NoUser, chatId |-> NoChat, command |-> <<>>,
     aiConfig |-> PendingConfig, recentMessages |-> <<>>, calls |-> 0, upstream |-> "none",
     aiResponse |-> <<>>, err |-> <<>>,
     noConfigMsg |-> 0, aiMessage |-> 0, errorMsg |-> 0, summary |-> 0,
     userMessage |-> [context |-> <<>>, instruction |-> <<>>]]

\* A run of the disconnect handler of a connection: the userId it read, whether it
\* wrote lastSeenAt, how many user_offline it broadcast and to which sockets.
IdleClose == [pc |-> "idle", user |-> NoUser, seen |-> 0, offline |-> 0, to |-> {}]

\* A run of a typing_start, typing_stop or mark_read handler: the userId it used,
\* how many error events its socket got, the event it delivered and to whom.
IdleReq ==
    [pc |-> "idle", op |-> "", conn |-> NoConn, chat |-> NoChat, quser |-> NoUser,
     errors |-> 0, ev |-> "none", user |-> NoUser, to |-> {}]

\* A run of a handler of the friends routes: the route, the caller, the request it
\* is about and the status code of its response.
IdleCall == [pc |-> "idle", route |-> "", caller |-> NoUser, id |-> <<>>, status |-> ""]

Init ==
    /\ userId = [c \in Conns |-> NoUser]
    /\ joined = [c \in Conns |-> {}]
    /\ onlineUsers = [u \in Users |-> NoConn]
    /\ members = {}
    /\ messages = <<>>
    /\ updatedAt = [ch \in Chats |-> 0]
    /\ aiConfig = [u \in Users |-> NoConfig]
    /\ aiSummaries = <<>>
    /\ auths = [a \in AuthIds |-> IdleAuth]
    /\ sends = [h \in SendIds |-> IdleSend]
    /\ runs = [h \in SendIds |-> IdleRun]
    /\ events = <<>>
    /\ lastSignal = NoSignal
    /\ connected = [c \in Conns |-> TRUE]
    /\ closes = [c \in Conns |-> IdleClose]
    /\ reqs = [q \in ReqIds |-> IdleReq]
    /\ lastReadAt = [m \in Users \X Chats |-> 0]
    /\ lastReply = NoReply
    /\ friendRequests = [id \in RequestIds |-> "none"]
    /\ directChats = <<>>
    /\ httpCalls = [k \in CallIds |-> IdleCall]

\* ------------------------------------------------------------------ Socket.io rooms
\* io.to(`chat:${chatId}`): every socket in the room.
Room(chatId) == {c \in Conns : chatId \in joined[c]}

\* socket.to(`chat:${chatId}`): every socket in the room but the emitting one.
RoomExcept(chatId, c) == Room(chatId) \ {c}

RoomEvent(ev, chatId, msg, run) ==
    [ev |-> ev, chat |-> chatId, msg |-> msg, run |-> run, to |-> Room(chatId)]

\* ------------------------------------------------------------------ rows
\* (data.type as any) || 'TEXT'
MessageType(type) == IF type = "" THEN "TEXT" ELSE type

Message(chatId, senderId, type, content) ==
    [chatId |-> chatId, senderId |-> senderId, type |-> type, content |-> content]

\* Mutant of IsMember: the lookup keyed by the chat alone.
IsMember_AnyRowOfChat(u, chatId) == \E v \in Users : <<v, chatId>> \in members

\* prisma.chatMember.findUnique({ where: { userId_chatId } }) returned a row.
IsMember(u, chatId) == <<u, chatId>> \in members

\* prisma.chatMember.findMany({ where: { userId } }): the chat ids of the rows.
Memberships(u) == {ch \in Chats : <<u, ch>> \in members}

\* Mutant of JwtVerify: the payload read without verifying the signature
\* (jwt.decode); the forged token names u3.
JwtVerify_Decode(tok) == IF tok \in Users THEN tok ELSE "u3"

\* jwt.verify: the payload's userId, or NoUser when verification throws.
JwtVerify(tok) == IF tok \in Users THEN tok ELSE NoUser

\* The next unused slot of a table of handler runs.
FreeSlot(table, ids, i) ==
    /\ table[i].pc = "idle"
    /\ \A j \in ids : j < i => table[j].pc # "idle"

\* ------------------------------------------------------------------ routes
\* PUT /api/friends/request/:id/accept: one transaction creates the DIRECT chat
\* with the request's sender and receiver as members.
AcceptFriendRequest(chatId, senderId, receiverId) ==
    /\ senderId # receiverId
    /\ \A u \in Users : ~IsMember(u, chatId)
    /\ members' = members \cup {<<senderId, chatId>>, <<receiverId, chatId>>}
    /\ UNCHANGED <<userId, joined, onlineUsers, messages, updatedAt, aiConfig,
                   aiSummaries, auths, sends, runs, events, lastSignal,
                   connected, closes, reqs, lastReadAt, lastReply,
                   friendRequests, directChats, httpCalls>>

\* ------------------------------------------------------------------ routes/friends.ts
\* The response of a handler run.
Respond(k, code) == [httpCalls[k] EXCEPT !.pc = "done", !.status = code]

\* POST /api/friends/request of user caller for receiverId: a request to oneself
\* is answered 400; otherwise the handler awaits user.findUnique.
PostRequest(caller, receiverId) ==
    /\ \E k \in CallIds :
        /\ FreeSlot(httpCalls, CallIds, k)
        /\ httpCalls' = [httpCalls EXCEPT ![k] =
              [IdleCall EXCEPT !.pc = IF receiverId = caller THEN "done" ELSE "findReceiver",
                               !.route = "POST", !.caller = caller,
                               !.id = <<caller, receiverId>>,
                               !.status = IF receiverId = caller THEN "400" ELSE ""]]
    /\ UNCHANGED <<userId, joined, onlineUsers, messages, updatedAt, aiConfig,
                   aiSummaries, auths, sends, runs, events, lastSignal,
                   connected, closes, reqs, lastReadAt, lastReply,
                   members, friendRequests, directChats>>

\* user.findUnique settled: the receiver exists; the handler awaits
\* friendRequest.findFirst.
PostReceiverFound(k) ==
    /\ httpCalls[k].pc = "findReceiver"
    /\ \E ok \in BOOLEAN :
        httpCalls' = [httpCalls EXCEPT ![k] =
            IF ok THEN [@ EXCEPT !.pc = "findFirst"] ELSE Respond(k, "500")]
    /\ UNCHANGED <<userId, joined, onlineUsers, messages, updatedAt, aiConfig,
                   aiSummaries, auths, sends, runs, events, lastSignal,
                   connected, closes, reqs, lastReadAt, lastReply,
                   members, friendRequests, directChats>>

\* findFirst settled: a request between the two users, in either direction, that
\* is pending or accepted is answered 409; otherwise the handler awaits
\* friendRequest.create.
PostChecked(k) ==
    /\ httpCalls[k].pc = "findFirst"
    /\ \E ok \in BOOLEAN :
        LET id == httpCalls[k].id
            existing == {e \in {id, <<id[2], id[1]>>} : friendRequests[e] # "none"}
        IN httpCalls' = [httpCalls EXCEPT ![k] =
              IF ~ok THEN Respond(k, "500")
              ELSE IF existing # {} THEN Respond(k, "409")
              ELSE [@ EXCEPT !.pc = "create"]]
    /\ UNCHANGED <<userId, joined, onlineUsers, messages, updatedAt, aiConfig,
                   aiSummaries, auths, sends, runs, events, lastSignal,
                   connected, closes, reqs, lastReadAt, lastReply,
                   members, friendRequests, directChats>>

\* friendRequest.create settled: the row exists unless the database failed or the
\* unique index on (senderId, receiverId) rejected it.
PostCreated(k) ==
    /\ httpCalls[k].pc = "create"
    /\ \E ok \in BOOLEAN :
        IF ok /\ friendRequests[httpCalls[k].id] = "none"
        THEN /\ friendRequests' = [friendRequests EXCEPT ![httpCalls[k].id] = "PENDING"]
             /\ httpCalls' = [httpCalls EXCEPT ![k] = Respond(k, "201")]
        ELSE /\ httpCalls' = [httpCalls EXCEPT ![k] = Respond(k, "500")]
             /\ UNCHANGED friendRequests
    /\ UNCHANGED <<userId, joined, onlineUsers, messages, updatedAt, aiConfig,
                   aiSummaries, auths, sends, runs, events, lastSignal,
                   connected, closes, reqs, lastReadAt, lastReply,
                   members, directChats>>

\* PUT /api/friends/request/:id/accept of user caller: up to the await of
\* friendRequest.findUnique.
AcceptRequest(caller, id) ==
    /\ \E k \in CallIds :
        /\ FreeSlot(httpCalls, CallIds, k)
        /\ httpCalls' = [httpCalls EXCEPT ![k] =
              [IdleCall EXCEPT !.pc = "find", !.route = "PUT", !.caller = caller,
                               !.id = id]]
    /\ UNCHANGED <<userId, joined, onlineUsers, messages, updatedAt, aiConfig,
                   aiSummaries, auths, sends, runs, events, lastSignal,
                   connected, closes, reqs, lastReadAt, lastReply,
                   members, friendRequests, directChats>>

\* request.status !== 'PENDING' answers 400.
StillPending(id) == friendRequests[id] = "PENDING"

\* findUnique settled: no such request of this receiver is answered 404, a request
\* that is not pending 400; otherwise the handler awaits the transaction.
AcceptFound(k) ==
    /\ httpCalls[k].pc = "find"
    /\ \E ok \in BOOLEAN :
        LET id == httpCalls[k].id
        IN httpCalls' = [httpCalls EXCEPT ![k] =
              IF ~ok THEN Respond(k, "500")
              ELSE IF friendRequests[id] = "none" \/ id[2] # httpCalls[k].caller
                   THEN Respond(k, "404")
              ELSE IF ~StillPending(id) THEN Respond(k, "400")
              ELSE [@ EXCEPT !.pc = "transaction"]]
    /\ UNCHANGED <<userId, joined, onlineUsers, messages, updatedAt, aiConfig,
                   aiSummaries, auths, sends, runs, events, lastSignal,
                   connected, closes, reqs, lastReadAt, lastReply,
                   members, friendRequests, directChats>>

\* prisma.$transaction settled: committed, the request is ACCEPTED and a DIRECT
\* chat with the two users as members exists; rolled back, nothing changed.  The
\* update inside the transaction is keyed by the id alone.
AcceptCommitted(k) ==
    /\ httpCalls[k].pc = "transaction"
    /\ \E ok \in BOOLEAN :
        LET id == httpCalls[k].id
            chat == Len(directChats) + 1
        IN IF ok
           THEN /\ friendRequests' = [friendRequests EXCEPT ![id] = "ACCEPTED"]
                /\ directChats' = Append(directChats,
                                         [type |-> "DIRECT", request |-> id,
                                          users |-> {id[1], id[2]}])
                /\ members' = members \cup {<<id[1], chat>>, <<id[2], chat>>}
                /\ httpCalls' = [httpCalls EXCEPT ![k] = Respond(k, "200")]
           ELSE /\ httpCalls' = [httpCalls EXCEPT ![k] = Respond(k, "500")]
                /\ UNCHANGED <<friendRequests, directChats, members>>
    /\ UNCHANGED <<userId, joined, onlineUsers, messages, updatedAt, aiConfig,
                   aiSummaries, auths, sends, runs, events, lastSignal,
                   connected, closes, reqs, lastReadAt, lastReply>>

\* AI_PROVIDERS.find((p) => p.id === provider), as getProvider does.
RegisteredProviders == {"deepseek", "openai", "kimi", "doubao", "claude"}

\* '********'
Stars == <<"*", "*", "*", "*", "*", "*", "*", "*">>
MaskLen == 8

\* apiKey.slice(0, 8)
KeyPrefix(key) == SubSeq(key, 1, IF Len(key) < MaskLen THEN Len(key) ELSE MaskLen)

\* GET: config.apiKey.length > 8 ? config.apiKey.slice(0, 8) + '********' : '********'
MaskedKey(key) == IF Len(key) > MaskLen THEN KeyPrefix(key) \o Stars ELSE Stars

\* PUT: config.apiKey.slice(0, 8) + '********'
SavedKey(key) == KeyPrefix(key) \o Stars

\* The config object of a response: the row with the key replaced.
ConfigView(row, key) ==
    [provider |-> row.provider, model |-> row.model, apiKey |-> key, baseUrl |-> row.baseUrl]

\* Mutant of ValidProvider: every provider id is accepted.
ValidProvider_Any(provider) == TRUE

\* const validProvider = AI_PROVIDERS.find((p) => p.id === provider)
ValidProvider(provider) == provider \in RegisteredProviders

\* Mutant of UpsertRow: the row keeps the endpoint override as it was sent.
UpsertRow_RawUrl(body) ==
    [provider |-> body.provider, model |-> body.model, apiKey |-> body.apiKey,
     baseUrl |-> body.baseUrl]

\* The row userAIConfig.upsert writes for a request body.
UpsertRow(body) ==
    [provider |-> body.provider, model |-> body.model, apiKey |-> body.apiKey,
     baseUrl |-> IF body.baseUrl = "" THEN NoBaseUrl ELSE body.baseUrl]

\* PUT /api/ai/config of user u: validation, then the upsert of the caller's row,
\* which takes effect when it settles, then the response.
PutConfig(u, body) ==
    /\ LET reply == [route |-> "PUT", user |-> u, body |-> body, status |-> "",
                     config |-> NullView]
       IN IF body.provider = "" \/ body.model = "" \/ body.apiKey = <<>>
          THEN /\ lastReply' = [reply EXCEPT !.status = "400"]
               /\ UNCHANGED aiConfig
          ELSE IF ~ValidProvider(body.provider)
          THEN /\ lastReply' = [reply EXCEPT !.status = "400"]
               /\ UNCHANGED aiConfig
          ELSE \E ok \in BOOLEAN :
               IF ok
               THEN /\ aiConfig' = [aiConfig EXCEPT ![u] = UpsertRow(body)]
                    /\ lastReply' = [reply EXCEPT !.status = "200",
                            !.config = ConfigView(UpsertRow(body), SavedKey(body.apiKey))]
               ELSE /\ lastReply' = [reply EXCEPT !.status = "500"]
                    /\ UNCHANGED aiConfig
    /\ UNCHANGED <<userId, joined, onlineUsers, members, messages, updatedAt,
                   aiSummaries, auths, sends, runs, events, lastSignal,
                   connected, closes, reqs, lastReadAt,
                   friendRequests, directChats, httpCalls>>

\* GET /api/ai/config of user u.
GetConfig(u) ==
    /\ \E ok \in BOOLEAN :
        LET reply == [route |-> "GET", user |-> u, body |-> NoBody, status |-> "",
                      config |-> NullView]
        IN lastReply' =
              IF ~ok THEN [reply EXCEPT !.status = "500"]
              ELSE IF aiConfig[u] = NoConfig THEN [reply EXCEPT !.status = "200"]
              ELSE [reply EXCEPT !.status = "200",
                       !.config = ConfigView(aiConfig[u], MaskedKey(aiConfig[u].apiKey))]
    /\ UNCHANGED <<userId, joined, onlineUsers, members, messages, updatedAt, aiConfig,
                   aiSummaries, auths, sends, runs, events, lastSignal,
                   connected, closes, reqs, lastReadAt,
                   friendRequests, directChats, httpCalls>>

\* The first PUT /api/ai/config of a user, with the DeepSeek settings.
SaveAIConfig(u) ==
    /\ aiConfig[u] = NoConfig
    /\ PutConfig(u, DeepSeekBody)

\* ------------------------------------------------------------------ authenticate
\* Mutant of RegistrySet: the entry is written only when the user has none.
RegistrySet_IfAbsent(u, c) ==
    IF onlineUsers[u] = NoConn THEN [onlineUsers EXCEPT ![u] = c] ELSE onlineUsers

\* onlineUsers.set(userId, socket.id)
RegistrySet(u, c) == [onlineUsers EXCEPT ![u] = c]

\* socket.on('authenticate'): up to the await of chatMember.findMany.
Authenticate(c, tok) ==
    /\ connected[c]
    /\ \E a \in AuthIds :
        /\ FreeSlot(auths, AuthIds, a)
        /\ IF JwtVerify(tok) = NoUser
           THEN /\ auths' = [auths EXCEPT ![a] =
                                [IdleAuth EXCEPT !.pc = "rejected", !.conn = c,
                                                 !.token = tok, !.emitted = <<"error">>]]
                /\ UNCHANGED <<userId, onlineUsers>>
           ELSE /\ userId' = [userId EXCEPT ![c] = JwtVerify(tok)]
                /\ onlineUsers' = RegistrySet(JwtVerify(tok), c)
                /\ auths' = [auths EXCEPT ![a] =
                                [IdleAuth EXCEPT !.pc = "load", !.conn = c, !.token = tok,
                                                 !.quser = JwtVerify(tok)]]
    /\ UNCHANGED <<joined, members, messages, updatedAt, aiConfig, aiSummaries,
                   sends, runs, events, lastSignal,
                   connected, closes, reqs, lastReadAt, lastReply,
                   friendRequests, directChats, httpCalls>>

\* socket.broadcast: every connected socket but the emitting one.
Others(c) == {d \in Conns \ {c} : connected[d]}

\* Mutant of UserOnlineTo: io.emit, which reaches the emitting socket too.
UserOnlineTo_All(c) == {d \in Conns : connected[d]}

\* socket.broadcast.emit('user_online', { userId })
UserOnlineTo(c) == Others(c)

\* findMany settled: join the rooms, emit authenticated and user_online; or the
\* catch block emits error.
AuthLoaded(a) ==
    /\ auths[a].pc = "load"
    /\ \E ok \in BOOLEAN :
        IF ok
        THEN /\ joined' = [joined EXCEPT ![auths[a].conn] =
                              IF connected[auths[a].conn]
                              THEN @ \cup Memberships(auths[a].quser) ELSE @]
             /\ auths' = [auths EXCEPT ![a].pc = "done",
                                       ![a].emitted = <<"authenticated", "user_online">>,
                                       ![a].rooms = Memberships(auths[a].quser),
                                       ![a].ackTo = {auths[a].conn},
                                       ![a].onlineTo = UserOnlineTo(auths[a].conn)]
        ELSE /\ auths' = [auths EXCEPT ![a].pc = "failed", ![a].emitted = <<"error">>]
             /\ UNCHANGED joined
    /\ UNCHANGED <<userId, onlineUsers, members, messages, updatedAt, aiConfig,
                   aiSummaries, sends, runs, events, lastSignal,
                   connected, closes, reqs, lastReadAt, lastReply,
                   friendRequests, directChats, httpCalls>>

\* ------------------------------------------------------------------ typing
\* socket.on('typing_start') / socket.on('typing_stop'): `if (!userId) return;`, then
\* socket.to(room).emit(ev, { chatId, userId }).
\* Mutant of TypingTo: io.to(room), which reaches the sender's socket too.
TypingTo_Room(c, chatId) == Room(chatId)

\* socket.to(`chat:${data.chatId}`)
TypingTo(c, chatId) == RoomExcept(chatId, c)

Typing(c, chatId, ev) ==
    /\ connected[c]
    /\ \E q \in ReqIds :
        /\ FreeSlot(reqs, ReqIds, q)
        /\ IF userId[c] = NoUser
           THEN /\ reqs' = [reqs EXCEPT ![q] =
                              [IdleReq EXCEPT !.pc = "ignored", !.op = ev, !.conn = c,
                                              !.chat = chatId]]
                /\ UNCHANGED lastSignal
           ELSE /\ reqs' = [reqs EXCEPT ![q] =
                              [IdleReq EXCEPT !.pc = "emitted", !.op = ev, !.conn = c,
                                              !.chat = chatId, !.quser = userId[c],
                                              !.ev = ev, !.user = userId[c],
                                              !.to = TypingTo(c, chatId)]]
                /\ lastSignal' = [ev |-> ev, chat |-> chatId, user |-> userId[c],
                                  to |-> TypingTo(c, chatId)]
    /\ UNCHANGED <<userId, joined, onlineUsers, members, messages, updatedAt,
                   aiConfig, aiSummaries, auths, sends, runs, events,
                   connected, closes, lastReadAt, lastReply,
                   friendRequests, directChats, httpCalls>>

\* ------------------------------------------------------------------ mark_read
\* socket.on('mark_read'): `if (!userId) return;`, then the await of
\* chatMember.update, whose where-clause reads userId now.
MarkRead(c, chatId) ==
    /\ connected[c]
    /\ \E q \in ReqIds :
        /\ FreeSlot(reqs, ReqIds, q)
        /\ reqs' = [reqs EXCEPT ![q] =
              IF userId[c] = NoUser
              THEN [IdleReq EXCEPT !.pc = "ignored", !.op = "mark_read", !.conn = c,
                                   !.chat = chatId]
              ELSE [IdleReq EXCEPT !.pc = "update", !.op = "mark_read", !.conn = c,
                                   !.chat = chatId, !.quser = userId[c]]]
    /\ UNCHANGED <<userId, joined, onlineUsers, members, messages, updatedAt,
                   aiConfig, aiSummaries, auths, sends, runs, events, lastSignal,
                   connected, closes, lastReadAt, lastReply,
                   friendRequests, directChats, httpCalls>>

\* Mutant of MarkReadFailed: the catch block reports the failure to the socket.
MarkReadFailed_Reported(q) == [reqs[q] EXCEPT !.pc = "swallowed", !.errors = @ + 1]

\* catch (err) { console.error(...) }
MarkReadFailed(q) == [reqs[q] EXCEPT !.pc = "swallowed"]

\* chatMember.update settled.  It rejects when the database fails and when there is
\* no row to update; the catch block logs and emits nothing.  Otherwise
\* socket.to(room).emit('message_read', { chatId, userId }) reads userId now.
MarkReadSettled(q) ==
    /\ reqs[q].pc = "update"
    /\ \E ok \in BOOLEAN :
        IF ok /\ IsMember(reqs[q].quser, reqs[q].chat)
        THEN /\ lastReadAt' = [lastReadAt EXCEPT ![<<reqs[q].quser, reqs[q].chat>>] = @ + 1]
             /\ reqs' = [reqs EXCEPT ![q].pc = "read", ![q].ev = "message_read",
                                     ![q].user = userId[reqs[q].conn],
                                     ![q].to = RoomExcept(reqs[q].chat, reqs[q].conn)]
        ELSE /\ reqs' = [reqs EXCEPT ![q] = MarkReadFailed(q)]
             /\ UNCHANGED lastReadAt
    /\ UNCHANGED <<userId, joined, onlineUsers, members, messages, updatedAt,
                   aiConfig, aiSummaries, auths, sends, runs, events, lastSignal,
                   connected, closes, lastReply,
                   friendRequests, directChats, httpCalls>>

\* ------------------------------------------------------------------ disconnect
\* Mutant of UserOffline: the rejection of user.update is not caught, so it leaves
\* the handler before the broadcast.
UserOffline_Uncaught(ok) == IF ok THEN 1 ELSE 0

\* await prisma.user.update(...).catch(() => {}); socket.broadcast.emit('user_offline'):
\* the number of user_offline broadcasts after the update settled.
UserOffline(ok) == 1

\* socket.on('disconnect'): the socket has left its rooms; with a userId the handler
\* deletes the registry entry of that user and awaits user.update.
Disconnect(c) ==
    /\ connected[c]
    /\ connected' = [connected EXCEPT ![c] = FALSE]
    /\ joined' = [joined EXCEPT ![c] = {}]
    /\ IF userId[c] = NoUser
       THEN /\ closes' = [closes EXCEPT ![c].pc = "done"]
            /\ UNCHANGED onlineUsers
       ELSE /\ onlineUsers' = [onlineUsers EXCEPT ![userId[c]] = NoConn]
            /\ closes' = [closes EXCEPT ![c].pc = "lastSeen", ![c].user = userId[c]]
    /\ UNCHANGED <<userId, members, messages, updatedAt, aiConfig, aiSummaries,
                   auths, sends, runs, events, lastSignal, reqs, lastReadAt, lastReply,
                   friendRequests, directChats, httpCalls>>

\* user.update settled, resolved or rejected: broadcast user_offline.
DisconnectSettled(c) ==
    /\ closes[c].pc = "lastSeen"
    /\ \E ok \in BOOLEAN :
        closes' = [closes EXCEPT ![c].pc = "done", ![c].seen = IF ok THEN 1 ELSE 0,
                                 ![c].user = userId[c],
                                 ![c].offline = @ + UserOffline(ok),
                                 ![c].to = Others(c)]
    /\ UNCHANGED <<userId, joined, onlineUsers, members, messages, updatedAt,
                   aiConfig, aiSummaries, auths, sends, runs, events, lastSignal,
                   connected, reqs, lastReadAt, lastReply,
                   friendRequests, directChats, httpCalls>>

\* ------------------------------------------------------------------ send_message
\* socket.on('send_message'): the userId guard, then the await of
\* chatMember.findUnique, whose where-clause reads userId now.
SendMessage(c, chatId, content, type) ==
    /\ connected[c]
    /\ \E h \in SendIds :
        /\ FreeSlot(sends, SendIds, h)
        /\ sends' = [sends EXCEPT ![h] =
              IF userId[c] = NoUser
              THEN [IdleSend EXCEPT !.pc = "unauthenticated", !.conn = c, !.chat = chatId,
                                    !.content = content, !.type = type, !.errors = 1]
              ELSE [IdleSend EXCEPT !.pc = "findMember", !.conn = c, !.chat = chatId,
                                    !.content = content, !.type = type,
                                    !.quser = userId[c]]]
    /\ UNCHANGED <<userId, joined, onlineUsers, members, messages, updatedAt, aiConfig,
                   aiSummaries, auths, runs, events, lastSignal,
                   connected, closes, reqs, lastReadAt, lastReply,
                   friendRequests, directChats, httpCalls>>

\* findUnique settled.  A rejection goes to the catch block; no row emits error and
\* returns; a row goes on to message.create, whose senderId reads userId now.
SendMemberFound(h) ==
    /\ sends[h].pc = "findMember"
    /\ \E ok \in BOOLEAN :
        sends' = [sends EXCEPT ![h] =
            IF ~ok THEN [@ EXCEPT !.pc = "failed", !.errors = @ + 1]
            ELSE IF ~IsMember(sends[h].quser, sends[h].chat)
                 THEN [@ EXCEPT !.pc = "notMember", !.errors = @ + 1]
                 ELSE [@ EXCEPT !.pc = "create", !.sender = userId[sends[h].conn]]]
    /\ UNCHANGED <<userId, joined, onlineUsers, members, messages, updatedAt, aiConfig,
                   aiSummaries, auths, runs, events, lastSignal,
                   connected, closes, reqs, lastReadAt, lastReply,
                   friendRequests, directChats, httpCalls>>

\* message.create settled: the row exists, and the handler awaits chat.update.  A
\* type outside the enum makes the create reject.
SendCreated(h) ==
    /\ sends[h].pc = "create"
    /\ \E ok \in BOOLEAN :
        IF ok /\ MessageType(sends[h].type) \in MessageTypes
        THEN /\ messages' = Append(messages,
                    Message(sends[h].chat, sends[h].sender, MessageType(sends[h].type),
                            sends[h].content))
             /\ sends' = [sends EXCEPT ![h].pc = "update",
                                       ![h].message = Len(messages) + 1]
        ELSE /\ sends' = [sends EXCEPT ![h].pc = "failed", ![h].errors = @ + 1]
             /\ UNCHANGED messages
    /\ UNCHANGED <<userId, joined, onlineUsers, members, updatedAt, aiConfig,
                   aiSummaries, auths, runs, events, lastSignal,
                   connected, closes, reqs, lastReadAt, lastReply,
                   friendRequests, directChats, httpCalls>>

\* Mutant of SendBroadcast: the handler broadcasts a message it built itself, with
\* the id the row would get, instead of the row message.create returned.
SendBroadcast_Optimistic(h) ==
    RoomEvent("new_message", sends[h].chat, Len(messages) + 1, 0)

\* io.to(room).emit('new_message', { message }) of the send handler.
SendBroadcast(h) == RoomEvent("new_message", sends[h].chat, sends[h].message, 0)

\* handleAIWakeup up to its first await: emits ai_thinking, then awaits
\* userAIConfig.findUnique.
StartRun(h, command) ==
    [IdleRun EXCEPT !.pc = "config", !.triggerUserId = userId[sends[h].conn],
                    !.chatId = sends[h].chat, !.command = command]

\* chat.update settled: broadcast, then the wake-word check, which may start the
\* workflow without awaiting it.
SendUpdated(h) ==
    /\ sends[h].pc = "update"
    /\ \E ok \in BOOLEAN :
        IF ok
        THEN LET aiCommand == extractAICommand(sends[h].content) IN
             /\ updatedAt' = [updatedAt EXCEPT ![sends[h].chat] = @ + 1]
             /\ sends' = [sends EXCEPT ![h].pc = "sent"]
             /\ IF aiCommand.hit
                THEN /\ events' = events \o
                          <<SendBroadcast(h),
                            RoomEvent("ai_thinking", sends[h].chat, 0, h)>>
                     /\ runs' = [runs EXCEPT ![h] = StartRun(h, aiCommand.command)]
                ELSE /\ events' = Append(events, SendBroadcast(h))
                     /\ UNCHANGED runs
        ELSE /\ sends' = [sends EXCEPT ![h].pc = "failed", ![h].errors = @ + 1]
             /\ UNCHANGED <<updatedAt, events, runs>>
    /\ UNCHANGED <<userId, joined, onlineUsers, members, messages, aiConfig,
                   aiSummaries, auths, lastSignal,
                   connected, closes, reqs, lastReadAt, lastReply,
                   friendRequests, directChats, httpCalls>>

\* ------------------------------------------------------------------ handleAIWakeup
\* getProvider(providerId) found a descriptor.
getProvider(providerId) == providerId \in RegisteredProviders

NoConfigText == <<"no AI config: open the AI settings">>
FallbackReply == <<"AI produced no reply">>
DbError == <<"database error">>
FetchFailed == <<"fetch failed">>
UnknownProvider(providerId) == <<"unknown AI provider: ", providerId>>

\* new Error(`AI API 错误 (${response.status}): ${errorText}`)
ApiError(status, errorText) == <<"AI API error (", status, "): ", errorText>>

\* new Error(`Claude API 错误 (${response.status}): ${errorText}`)
ClaudeApiError(status, errorText) == <<"Claude API error (", status, "): ", errorText>>

\* providerConfig.format
ProviderFormat(providerId) == IF providerId = "claude" THEN "anthropic" ELSE "openai"

\* data.choices?.[0]?.message?.content || 'AI 未能生成回复'
ReplyOf(content) == IF content = <<>> THEN FallbackReply ELSE content

\* `AI 调用失败：${err.message || '未知错误'}。请检查 ...`
NoticeText(err) ==
    <<"AI call failed: ">> \o (IF err = <<>> THEN <<"unknown error">> ELSE err)
        \o <<". check the API key and model">>

\* What the provider may answer: a reply, a reply without content, a non-success
\* status, or a transport failure.
UpstreamStatus == "500"
UpstreamBody == "boom"
ProviderAnswers == {"reply", "empty", "status", "neterr"}

\* The catch block up to its await of message.create for the failure notice.
Catch(r, err) == [runs[r] EXCEPT !.pc = "notice", !.err = err]

\* Mutant of ThinkingDone: the emit placed after the try/catch statement instead of
\* in a finally block, so a throw out of the catch block skips it.
ThinkingDone_AfterTry(r, thrown) ==
    IF thrown THEN <<>> ELSE <<RoomEvent("ai_thinking_done", runs[r].chatId, 0, r)>>

\* finally { io.to(room).emit('ai_thinking_done') }
ThinkingDone(r, thrown) == <<RoomEvent("ai_thinking_done", runs[r].chatId, 0, r)>>

\* Mutant of OnWakeupRejected: the workflow awaited inside the handler's try block,
\* so its rejection reaches the handler's catch block and socket.emit('error').
OnWakeupRejected_Awaited(h) == sends[h].errors + 1

\* handleAIWakeup(...).catch((err) => console.error(...)): the send handler's
\* socket gets nothing.
OnWakeupRejected(h) == sends[h].errors

AIReplyEvent(r, msg) == RoomEvent("new_message", runs[r].chatId, msg, r)

AIMessage(r, content) ==
    Message(runs[r].chatId, runs[r].triggerUserId, "AI_SUMMARY", content)

\* Mutant of HasConfig: the run goes on without testing the row it looked up.
HasConfig_Unchecked(u) == TRUE

\* if (!aiConfig) { ... return; }
HasConfig(u) == aiConfig[u] # NoConfig

\* userAIConfig.findUnique settled.
WfConfigFound(r) ==
    /\ runs[r].pc = "config"
    /\ \E ok \in BOOLEAN :
        runs' = [runs EXCEPT ![r] =
            IF ~ok THEN Catch(r, DbError)
            ELSE IF ~HasConfig(runs[r].triggerUserId)
                 THEN [@ EXCEPT !.pc = "noConfigCreate", !.aiConfig = NoConfig]
                 ELSE [@ EXCEPT !.pc = "context",
                                !.aiConfig = aiConfig[runs[r].triggerUserId]]]
    /\ UNCHANGED <<userId, joined, onlineUsers, members, messages, updatedAt, aiConfig,
                   aiSummaries, auths, sends, events, lastSignal,
                   connected, closes, reqs, lastReadAt, lastReply,
                   friendRequests, directChats, httpCalls>>

\* message.create of the configuration prompt settled: broadcast, return, finally.
WfNoConfigCreated(r) ==
    /\ runs[r].pc = "noConfigCreate"
    /\ \E ok \in BOOLEAN :
        IF ok
        THEN /\ messages' = Append(messages, AIMessage(r, NoConfigText))
             /\ events' = events \o <<AIReplyEvent(r, Len(messages) + 1)>>
                                 \o ThinkingDone(r, FALSE)
             /\ runs' = [runs EXCEPT ![r].pc = "returned",
                                     ![r].noConfigMsg = Len(messages) + 1]
        ELSE /\ runs' = [runs EXCEPT ![r] = Catch(r, DbError)]
             /\ UNCHANGED <<messages, events>>
    /\ UNCHANGED <<userId, joined, onlineUsers, members, updatedAt, aiConfig,
                   aiSummaries, auths, sends, lastSignal,
                   connected, closes, reqs, lastReadAt, lastReply,
                   friendRequests, directChats, httpCalls>>

\* where: { chatId, type: 'TEXT' }, take: 30
ContextLimit == 30

\* Mutant of TextMessages: the query without its type filter.
TextMessages_AnyType(chatId) == {i \in 1..Len(messages) : messages[i].chatId = chatId}

TextMessages(chatId) ==
    {i \in 1..Len(messages) : messages[i].chatId = chatId /\ messages[i].type = "TEXT"}

\* Mutant of Newest: orderBy createdAt asc, which keeps the oldest n.
Newest_Oldest(ids, n) == {i \in ids : Cardinality({j \in ids : j < i}) < n}

\* orderBy: { createdAt: 'desc' }, take: n
Newest(ids, n) == {i \in ids : Cardinality({j \in ids : j > i}) < n}

\* recentMessages.reverse(): oldest first.
RECURSIVE Ascending(_)
Ascending(ids) ==
    IF ids = {} THEN <<>>
    ELSE LET first == CHOOSE i \in ids : \A j \in ids : i <= j
         IN <<first>> \o Ascending(ids \ {first})

\* The rows message.findMany returns to the run, as the chatContext callAI gets.
RecentMessages(chatId) == Ascending(Newest(TextMessages(chatId), ContextLimit))

\* The instruction callAI appends when options.command is empty.
GreetInstruction == <<"the user woke you without an instruction: greet and ask">>

\* Mutant of Instruction: the command appended as it is, empty or not.
Instruction_Raw(command) == <<"[instruction]">> \o command

\* if (options.command) { ...command } else { ...fixed instruction }
Instruction(command) ==
    <<"[instruction]">> \o (IF command # <<>> THEN command ELSE GreetInstruction)

\* userMessage: the transcript block, when there are context lines, and the
\* instruction.
UserMessage(command, chatContext) ==
    [context |-> chatContext, instruction |-> Instruction(command)]

\* message.findMany settled; callAI runs up to its fetch, which the provider will
\* answer or not.
WfContextFetched(r) ==
    /\ runs[r].pc = "context"
    /\ \E ok \in BOOLEAN, up \in {"responds", "silent"} :
        runs' = [runs EXCEPT ![r] =
            IF ~ok THEN Catch(r, DbError)
            ELSE IF ~getProvider(runs[r].aiConfig.provider)
                 THEN [Catch(r, UnknownProvider(runs[r].aiConfig.provider))
                          EXCEPT !.recentMessages = RecentMessages(runs[r].chatId)]
                 ELSE [@ EXCEPT !.pc = "callAI",
                                !.recentMessages = RecentMessages(runs[r].chatId),
                                !.userMessage =
                                    UserMessage(runs[r].command,
                                                RecentMessages(runs[r].chatId)),
                                !.calls = @ + 1,
                                !.upstream = up]]
    /\ UNCHANGED <<userId, joined, onlineUsers, members, messages, updatedAt, aiConfig,
                   aiSummaries, auths, sends, events, lastSignal,
                   connected, closes, reqs, lastReadAt, lastReply,
                   friendRequests, directChats, httpCalls>>

\* Mutant of OnStatus: the request is sent again after a non-success response.
OnStatus_Retry(r) == [runs[r] EXCEPT !.calls = @ + 1, !.upstream = "responds"]

\* if (!response.ok) { const errorText = await response.text(); throw new Error(...) }
OnStatus(r) ==
    [Catch(r, IF ProviderFormat(runs[r].aiConfig.provider) = "anthropic"
              THEN ClaudeApiError(UpstreamStatus, UpstreamBody)
              ELSE ApiError(UpstreamStatus, UpstreamBody))
        EXCEPT !.upstream = "status"]

\* fetch settled and the body was read: callAI returns the reply or throws.
WfCallSettled(r) ==
    /\ runs[r].pc = "callAI"
    /\ runs[r].upstream = "responds"
    /\ \E answer \in ProviderAnswers :
        runs' = [runs EXCEPT ![r] =
            CASE answer = "reply" -> [@ EXCEPT !.pc = "replyCreate", !.upstream = answer,
                                               !.aiResponse = ReplyOf(<<"reply">>)]
              [] answer = "empty" -> [@ EXCEPT !.pc = "replyCreate", !.upstream = answer,
                                               !.aiResponse = ReplyOf(<<>>)]
              [] answer = "status" -> OnStatus(r)
              [] answer = "neterr" -> [Catch(r, FetchFailed) EXCEPT !.upstream = answer]]
    /\ UNCHANGED <<userId, joined, onlineUsers, members, messages, updatedAt, aiConfig,
                   aiSummaries, auths, sends, events, lastSignal,
                   connected, closes, reqs, lastReadAt, lastReply,
                   friendRequests, directChats, httpCalls>>

\* message.create of the reply settled; the run awaits chat.update.
WfReplyCreated(r) ==
    /\ runs[r].pc = "replyCreate"
    /\ \E ok \in BOOLEAN :
        IF ok
        THEN /\ messages' = Append(messages, AIMessage(r, runs[r].aiResponse))
             /\ runs' = [runs EXCEPT ![r].pc = "replyUpdate",
                                     ![r].aiMessage = Len(messages) + 1]
        ELSE /\ runs' = [runs EXCEPT ![r] = Catch(r, DbError)]
             /\ UNCHANGED messages
    /\ UNCHANGED <<userId, joined, onlineUsers, members, updatedAt, aiConfig,
                   aiSummaries, auths, sends, events, lastSignal,
                   connected, closes, reqs, lastReadAt, lastReply,
                   friendRequests, directChats, httpCalls>>

\* chat.update settled: broadcast the reply, then await aISummary.create.
WfReplyUpdated(r) ==
    /\ runs[r].pc = "replyUpdate"
    /\ \E ok \in BOOLEAN :
        IF ok
        THEN /\ updatedAt' = [updatedAt EXCEPT ![runs[r].chatId] = @ + 1]
             /\ events' = Append(events, AIReplyEvent(r, runs[r].aiMessage))
             /\ runs' = [runs EXCEPT ![r].pc = "summary"]
        ELSE /\ runs' = [runs EXCEPT ![r] = Catch(r, DbError)]
             /\ UNCHANGED <<updatedAt, events>>
    /\ UNCHANGED <<userId, joined, onlineUsers, members, messages, aiConfig,
                   aiSummaries, auths, sends, lastSignal,
                   connected, closes, reqs, lastReadAt, lastReply,
                   friendRequests, directChats, httpCalls>>

\* Mutant of CreateSummary: one row per chat, replaced by each run (an upsert).
CreateSummary_Upsert(row) ==
    SelectSeq(aiSummaries, LAMBDA old : old.chatId # row.chatId) \o <<row>>

\* prisma.aISummary.create({ data })
CreateSummary(row) == Append(aiSummaries, row)

\* aISummary.create settled: return, finally.
WfSummaryCreated(r) ==
    /\ runs[r].pc = "summary"
    /\ \E ok \in BOOLEAN :
        IF ok
        THEN /\ aiSummaries' = CreateSummary(
                    [chatId |-> runs[r].chatId, triggeredById |-> runs[r].triggerUserId,
                     messageCount |-> Len(runs[r].recentMessages),
                     text |-> runs[r].aiResponse, command |-> runs[r].command])
             /\ events' = events \o ThinkingDone(r, FALSE)
             /\ runs' = [runs EXCEPT ![r].pc = "returned",
                                     ![r].summary = Len(aiSummaries) + 1]
        ELSE /\ runs' = [runs EXCEPT ![r] = Catch(r, DbError)]
             /\ UNCHANGED <<aiSummaries, events>>
    /\ UNCHANGED <<userId, joined, onlineUsers, members, messages, updatedAt, aiConfig,
                   auths, sends, lastSignal,
                   connected, closes, reqs, lastReadAt, lastReply,
                   friendRequests, directChats, httpCalls>>

\* message.create of the failure notice settled: broadcast it; a rejection leaves
\* the catch block by throwing.  Either way the finally block runs.
WfNoticeCreated(r) ==
    /\ runs[r].pc = "notice"
    /\ \E ok \in BOOLEAN :
        IF ok
        THEN /\ messages' = Append(messages, AIMessage(r, NoticeText(runs[r].err)))
             /\ events' = events \o <<AIReplyEvent(r, Len(messages) + 1)>>
                                 \o ThinkingDone(r, FALSE)
             /\ runs' = [runs EXCEPT ![r].pc = "returned",
                                     ![r].errorMsg = Len(messages) + 1]
             /\ UNCHANGED sends
        ELSE /\ events' = events \o ThinkingDone(r, TRUE)
             /\ runs' = [runs EXCEPT ![r].pc = "thrown"]
             /\ sends' = [sends EXCEPT ![r].errors = OnWakeupRejected(r)]
             /\ UNCHANGED messages
    /\ UNCHANGED <<userId, joined, onlineUsers, members, updatedAt, aiConfig,
                   aiSummaries, auths, lastSignal,
                   connected, closes, reqs, lastReadAt, lastReply,
                   friendRequests, directChats, httpCalls>>

\* ------------------------------------------------------------------ specification
Started(table, ids) == Cardinality({i \in ids : table[i].pc # "idle"})

\* The friend requests that can be accepted: one per pair of users.
FriendPairs == {<<"u1", "u2">>, <<"u1", "u3">>, <<"u2", "u3">>}

Routes ==
    \/ \E ch \in Chats, p \in FriendPairs : AcceptFriendRequest(ch, p[1], p[2])
    \/ \E u \in ClientUsers : SaveAIConfig(u)

Session ==
    \/ \E c \in Conns : Authenticate(c, ClientToken(c))
    \/ \E a \in AuthIds : AuthLoaded(a)

SendSteps ==
    \/ \E h \in SendIds : SendMemberFound(h)
    \/ \E h \in SendIds : SendCreated(h)
    \/ \E h \in SendIds : SendUpdated(h)

\* The steps of run r of handleAIWakeup.
RunStep(r) ==
    \/ WfConfigFound(r)
    \/ WfNoConfigCreated(r)
    \/ WfContextFetched(r)
    \/ WfCallSettled(r)
    \/ WfReplyCreated(r)
    \/ WfReplyUpdated(r)
    \/ WfSummaryCreated(r)
    \/ WfNoticeCreated(r)

\* Sends with and without the wake word, and the workflow they start.
Next ==
    \/ Routes
    \/ Session
    \/ \E c \in Conns, ch \in Chats, content \in Contents :
          /\ Started(sends, SendIds) < MaxFlowSends
          /\ SendMessage(c, ch, content, NoType)
    \/ SendSteps
    \/ \E r \in SendIds : RunStep(r)

Spec == Init /\ [][Next]_vars

\* The same, with the typing signals.
NextSignal ==
    \/ Next
    \/ \E c \in Conns, ch \in Chats, ev \in {"typing", "typing_stop"} :
          /\ Started(reqs, ReqIds) < MaxFlowReqs
          /\ Typing(c, ch, ev)

SignalSpec == Init /\ [][NextSignal]_vars

\* Concurrent plain sends: the send handlers alone.
NextRace ==
    \/ \E ch \in Chats, p \in FriendPairs : AcceptFriendRequest(ch, p[1], p[2])
    \/ Session
    \/ \E c \in Conns, ch \in Chats : SendMessage(c, ch, PlainText, NoType)
    \/ SendSteps

RaceSpec == Init /\ [][NextRace]_vars

\* Connections that authenticate with any token, valid or not, their own or another
\* user's, and disconnect.
NextPresence ==
    \/ \E ch \in Chats, p \in FriendPairs : AcceptFriendRequest(ch, p[1], p[2])
    \/ \E c \in Conns, tok \in Tokens : Authenticate(c, tok)
    \/ \E a \in AuthIds : AuthLoaded(a)
    \/ \E c \in Conns : Disconnect(c)
    \/ \E c \in Conns : DisconnectSettled(c)

PresenceSpec == Init /\ [][NextPresence]_vars

\* The events a client can emit on its connection, authenticated or not, member of
\* the chat or not: one plain send_message and the typing and mark_read events.
NextGuard ==
    \/ \E ch \in Chats, p \in FriendPairs : AcceptFriendRequest(ch, p[1], p[2])
    \/ Session
    \/ \E c \in Conns, ch \in Chats :
          /\ Started(sends, SendIds) < MaxFlowSends
          /\ SendMessage(c, ch, PlainText, NoType)
    \/ SendSteps
    \/ \E c \in Conns, ch \in Chats, ev \in {"typing", "typing_stop"} : Typing(c, ch, ev)
    \/ \E c \in Conns, ch \in Chats : MarkRead(c, ch)
    \/ \E q \in ReqIds : MarkReadSettled(q)

GuardSpec == Init /\ [][NextGuard]_vars

\* The AI-config endpoints alone, called by the two clients with any body.
NextConfig ==
    \/ \E u \in ClientUsers, body \in ConfigBodies : PutConfig(u, body)
    \/ \E u \in ClientUsers : GetConfig(u)

ConfigSpec == Init /\ [][NextConfig]_vars

\* A chat with history: u1 and u2 are the members of c1, which holds earlier user
\* messages and AI replies, each reply with the AISummary row of its run.
PriorRows ==
    {Message("c1", "u2", "TEXT", PlainText), Message("c1", "u1", "AI_SUMMARY", FallbackReply)}

PriorStores == UNION {[1..n -> PriorRows] : n \in 0..MaxPrior}

PriorSummary ==
    [chatId |-> "c1", triggeredById |-> "u1", messageCount |-> 0,
     text |-> FallbackReply, command |-> <<>>]

InitContext ==
    /\ userId = [c \in Conns |-> NoUser]
    /\ joined = [c \in Conns |-> {}]
    /\ onlineUsers = [u \in Users |-> NoConn]
    /\ members = {<<"u1", "c1">>, <<"u2", "c1">>}
    /\ messages \in PriorStores
    /\ updatedAt = [ch \in Chats |-> Len(messages)]
    /\ aiConfig = [u \in Users |-> NoConfig]
    /\ aiSummaries = [i \in 1..Len(SelectSeq(messages, LAMBDA m : m.type = "AI_SUMMARY"))
                        |-> PriorSummary]
    /\ auths = [a \in AuthIds |-> IdleAuth]
    /\ sends = [h \in SendIds |-> IdleSend]
    /\ runs = [h \in SendIds |-> IdleRun]
    /\ events = <<>>
    /\ lastSignal = NoSignal
    /\ connected = [c \in Conns |-> TRUE]
    /\ closes = [c \in Conns |-> IdleClose]
    /\ reqs = [q \in ReqIds |-> IdleReq]
    /\ lastReadAt = [m \in Users \X Chats |-> 0]
    /\ lastReply = NoReply
    /\ friendRequests = [id \in RequestIds |-> "none"]
    /\ directChats = <<>>
    /\ httpCalls = [k \in CallIds |-> IdleCall]

\* One wake-word message in that chat, and the workflow it starts.
NextContext ==
    \/ \E u \in ClientUsers : SaveAIConfig(u)
    \/ Session
    \/ \E c \in Conns, ch \in Chats :
          /\ Started(sends, SendIds) < MaxFlowSends
          /\ SendMessage(c, ch, WakeText, NoType)
    \/ SendSteps
    \/ \E r \in SendIds : RunStep(r)

ContextSpec == InitContext /\ [][NextContext]_vars

\* The wake-word detector on every body: u1, a member of c1, is authenticated on s1
\* and sends one message with any body; s2 is not authenticated.
InitDetect ==
    /\ userId = [c \in Conns |-> IF c = "s1" THEN "u1" ELSE NoUser]
    /\ joined = [c \in Conns |-> IF c = "s1" THEN {"c1"} ELSE {}]
    /\ onlineUsers = [u \in Users |-> IF u = "u1" THEN "s1" ELSE NoConn]
    /\ members = {<<"u1", "c1">>, <<"u2", "c1">>}
    /\ messages = <<>>
    /\ updatedAt = [ch \in Chats |-> 0]
    /\ aiConfig = [u \in Users |-> NoConfig]
    /\ aiSummaries = <<>>
    /\ auths = [a \in AuthIds |->
                  IF a = 1
                  THEN [pc |-> "done", conn |-> "s1", token |-> "u1", quser |-> "u1",
                        emitted |-> <<"authenticated", "user_online">>,
                        rooms |-> {"c1"}, ackTo |-> {"s1"}, onlineTo |-> {"s2"}]
                  ELSE IdleAuth]
    /\ sends = [h \in SendIds |-> IdleSend]
    /\ runs = [h \in SendIds |-> IdleRun]
    /\ events = <<>>
    /\ lastSignal = NoSignal
    /\ connected = [c \in Conns |-> TRUE]
    /\ closes = [c \in Conns |-> IdleClose]
    /\ reqs = [q \in ReqIds |-> IdleReq]
    /\ lastReadAt = [m \in Users \X Chats |-> 0]
    /\ lastReply = NoReply
    /\ friendRequests = [id \in RequestIds |-> "none"]
    /\ directChats = <<>>
    /\ httpCalls = [k \in CallIds |-> IdleCall]

NextDetect ==
    \/ /\ Started(sends, SendIds) < MaxFlowSends
       /\ \E c \in Conns, ch \in Chats, content \in Bodies :
             SendMessage(c, ch, content, NoType)
    \/ SendSteps

DetectSpec == InitDetect /\ [][NextDetect]_vars

\* u1 saves configurations, acceptable or not, any number of times, and wakes the AI
\* once.
WorkflowBodies ==
    {body \in ConfigBodies :
        \/ body.model = "m" /\ body.apiKey = LongKey /\ body.baseUrl = ""
        \/ body.provider = "deepseek" /\ body.baseUrl = "" /\ body.apiKey # ShortKey}

NextProvider ==
    \/ \E body \in WorkflowBodies : PutConfig("u1", body)
    \/ /\ Started(sends, SendIds) < MaxFlowSends
       /\ SendMessage("s1", "c1", WakeText, NoType)
    \/ SendSteps
    \/ \E r \in SendIds : RunStep(r)

ProviderSpec == InitDetect /\ [][NextProvider]_vars

\* One send_message of s1 with any body and any data.type, and the workflow it may
\* start.
NextKind ==
    \/ SaveAIConfig("u1")
    \/ /\ Started(sends, SendIds) < MaxFlowSends
       /\ \E content \in Contents, type \in Types : SendMessage("s1", "c1", content, type)
    \/ SendSteps
    \/ \E r \in SendIds : RunStep(r)

KindSpec == InitDetect /\ [][NextKind]_vars

\* A chat with a long history: text messages of c1 with, at a few places, a SYSTEM
\* message, an AI_SUMMARY message or a text message of another chat.
OtherChat == "c2"

OddRows ==
    {Message("c1", "u2", "SYSTEM", PlainText),
     Message("c1", "u1", "AI_SUMMARY", FallbackReply),
     Message(OtherChat, "u3", "TEXT", PlainText)}

OddPlaces(n) == {{}, {1}, {n}, {2, n - 1}}

LongStores ==
    UNION {{[i \in 1..n |-> IF i \in places THEN odd
                            ELSE Message("c1", "u2", "TEXT", PlainText)] :
               places \in OddPlaces(n), odd \in OddRows} :
           n \in (ContextLimit - 2)..MaxHistory}

InitLimit ==
    /\ userId = [c \in Conns |-> IF c = "s1" THEN "u1" ELSE NoUser]
    /\ joined = [c \in Conns |-> IF c = "s1" THEN {"c1"} ELSE {}]
    /\ onlineUsers = [u \in Users |-> IF u = "u1" THEN "s1" ELSE NoConn]
    /\ members = {<<"u1", "c1">>, <<"u2", "c1">>}
    /\ messages \in LongStores
    /\ updatedAt = [ch \in Chats |-> Len(messages)]
    /\ aiConfig \in {[u \in Users |-> IF u = "u1" THEN row ELSE NoConfig] :
                        row \in {NoConfig, DeepSeekConfig}}
    /\ aiSummaries = <<>>
    /\ auths = [a \in AuthIds |->
                  IF a = 1
                  THEN [pc |-> "done", conn |-> "s1", token |-> "u1", quser |-> "u1",
                        emitted |-> <<"authenticated", "user_online">>,
                        rooms |-> {"c1"}, ackTo |-> {"s1"}, onlineTo |-> {"s2"}]
                  ELSE IdleAuth]
    /\ sends = [h \in SendIds |-> IdleSend]
    /\ runs = [h \in SendIds |-> IdleRun]
    /\ events = <<>>
    /\ lastSignal = NoSignal
    /\ connected = [c \in Conns |-> TRUE]
    /\ closes = [c \in Conns |-> IdleClose]
    /\ reqs = [q \in ReqIds |-> IdleReq]
    /\ lastReadAt = [m \in Users \X Chats |-> 0]
    /\ lastReply = NoReply
    /\ friendRequests = [id \in RequestIds |-> "none"]
    /\ directChats = <<>>
    /\ httpCalls = [k \in CallIds |-> IdleCall]

\* One wake-word message of s1 in that chat, and the workflow it starts.
NextLimit ==
    \/ /\ Started(sends, SendIds) < MaxFlowSends
       /\ SendMessage("s1", "c1", WakeText, NoType)
    \/ SendSteps
    \/ \E r \in SendIds : RunStep(r)

LimitSpec == InitLimit /\ [][NextLimit]_vars

\* The bodies that begin with the wake word's first character or with a blank.
WakeBodies == {body \in Bodies : body = <<>> \/ body[1] \in {"@", " "}}

\* One send_message of s1 with such a body, and the workflow it may start.
NextWake ==
    \/ SaveAIConfig("u1")
    \/ /\ Started(sends, SendIds) < MaxFlowSends
       /\ \E content \in WakeBodies : SendMessage("s1", "c1", content, NoType)
    \/ SendSteps
    \/ \E r \in SendIds : RunStep(r)

WakeSpec == InitDetect /\ [][NextWake]_vars

\* The friends routes: requests between two users and their acceptance, by any
\* of the two, concurrently.
NextFriend ==
    \/ \E caller \in FriendUsers, receiverId \in FriendUsers : PostRequest(caller, receiverId)
    \/ \E k \in CallIds : PostReceiverFound(k)
    \/ \E k \in CallIds : PostChecked(k)
    \/ \E k \in CallIds : PostCreated(k)
    \/ \E caller \in FriendUsers, id \in RequestIds : AcceptRequest(caller, id)
    \/ \E k \in CallIds : AcceptFound(k)
    \/ \E k \in CallIds : AcceptCommitted(k)

FriendSpec == Init /\ [][NextFriend]_vars

\* Some run is inside callAI, awaiting the provider's answer.
AwaitingProvider == \E r \in SendIds : runs[r].pc = "callAI"

\* Mutant of EventLoopFree: the request made with a blocking call, so that no
\* handler runs until the provider has answered.
EventLoopFree_Blocking == ~AwaitingProvider

\* const response = await fetch(...): the run yields, and the event loop goes on
\* dispatching socket events and settled promises.
EventLoopFree == TRUE

\* The event loop dispatches an inbound event of connection c, or the
\* continuation of a handler whose database call has settled.
OnSendMessage(c, content) == EventLoopFree /\ SendMessage(c, "c1", content, NoType)
OnTyping(c, ev) == EventLoopFree /\ Typing(c, "c1", ev)
OnMarkRead(c) == EventLoopFree /\ MarkRead(c, "c1")
OnSendSettled(h) ==
    EventLoopFree /\ (SendMemberFound(h) \/ SendCreated(h) \/ SendUpdated(h))
OnMarkReadSettled(q) == EventLoopFree /\ MarkReadSettled(q)

\* u1 on s1 and u2 on s2, both members of c1 and in its room; u1 has saved a config.
InitBusy ==
    /\ userId = [c \in Conns |-> IF c = "s1" THEN "u1" ELSE "u2"]
    /\ joined = [c \in Conns |-> {"c1"}]
    /\ onlineUsers = [u \in Users |-> IF u = "u1" THEN "s1"
                                      ELSE IF u = "u2" THEN "s2" ELSE NoConn]
    /\ members = {<<"u1", "c1">>, <<"u2", "c1">>}
    /\ messages = <<>>
    /\ updatedAt = [ch \in Chats |-> 0]
    /\ aiConfig = [u \in Users |-> IF u = "u1" THEN DeepSeekConfig ELSE NoConfig]
    /\ aiSummaries = <<>>
    /\ auths = [a \in AuthIds |->
                  IF a = 1
                  THEN [pc |-> "done", conn |-> "s1", token |-> "u1", quser |-> "u1",
                        emitted |-> <<"authenticated", "user_online">>,
                        rooms |-> {"c1"}, ackTo |-> {"s1"}, onlineTo |-> {"s2"}]
                  ELSE [pc |-> "done", conn |-> "s2", token |-> "u2", quser |-> "u2",
                        emitted |-> <<"authenticated", "user_online">>,
                        rooms |-> {"c1"}, ackTo |-> {"s2"}, onlineTo |-> {"s1"}]]
    /\ sends = [h \in SendIds |-> IdleSend]
    /\ runs = [h \in SendIds |-> IdleRun]
    /\ events = <<>>
    /\ lastSignal = NoSignal
    /\ connected = [c \in Conns |-> TRUE]
    /\ closes = [c \in Conns |-> IdleClose]
    /\ reqs = [q \in ReqIds |-> IdleReq]
    /\ lastReadAt = [m \in Users \X Chats |-> 0]
    /\ lastReply = NoReply
    /\ friendRequests = [id \in RequestIds |-> "none"]
    /\ directChats = <<>>
    /\ httpCalls = [k \in CallIds |-> IdleCall]

\* u1's wake-word message, and the events of both connections that arrive
\* while its run awaits the provider.
NextBusy ==
    \/ /\ Started(sends, SendIds) = 0
       /\ OnSendMessage("s1", WakeText)
    \/ /\ AwaitingProvider
       /\ Started(sends, SendIds) < MaxSends
       /\ \E c \in Conns, content \in Contents : OnSendMessage(c, content)
    \/ /\ AwaitingProvider
       /\ Started(reqs, ReqIds) < MaxFlowReqs
       /\ \E c \in Conns, ev \in {"typing", "typing_stop"} : OnTyping(c, ev)
    \/ /\ AwaitingProvider
       /\ Started(reqs, ReqIds) < MaxFlowReqs
       /\ \E c \in Conns : OnMarkRead(c)
    \/ \E h \in SendIds : OnSendSettled(h)
    \/ \E q \in ReqIds : OnMarkReadSettled(q)
    \/ \E r \in SendIds : RunStep(r)

BusySpec == InitBusy /\ [][NextBusy]_vars

\* ------------------------------------------------------------------ properties
EventIds == 1..Len(events)

\* The new_message events of the send handlers, and of the workflow runs.
UserBroadcasts == {i \in EventIds : events[i].ev = "new_message" /\ events[i].run = 0}
ReplyBroadcasts(r) == {i \in EventIds : events[i].ev = "new_message" /\ events[i].run = r}
RunSignals(r, ev) == {i \in EventIds : events[i].ev = ev /\ events[i].run = r}
RunEvents(r) == {i \in EventIds : events[i].run = r}
BroadcastsOf(msg) == {i \in EventIds : events[i].ev = "new_message" /\ events[i].msg = msg}

RunEnded(r) == runs[r].pc \in {"returned", "thrown"}

\* The message.create calls whose result is message m.
Creators(m) ==
    {<<"send", h>> : h \in {x \in SendIds : sends[x].message = m}}
        \cup {<<"noConfigMsg", r>> : r \in {x \in SendIds : runs[x].noConfigMsg = m}}
        \cup {<<"aiMessage", r>> : r \in {x \in SendIds : runs[x].aiMessage = m}}
        \cup {<<"errorMsg", r>> : r \in {x \in SendIds : runs[x].errorMsg = m}}

\* The AI_SUMMARY messages run r has created.
RepliesOf(r) == {runs[r].noConfigMsg, runs[r].aiMessage, runs[r].errorMsg} \ {0}

Contains(s, x) == \E i \in 1..Len(s) : s[i] = x

\* C1: every new_message that was broadcast (user message, configuration prompt, AI
\* reply, failure notice) carries a message that is already a row of the store, of
\* the chat it was broadcast to; and every row of the store is the result of exactly
\* one message.create call of a send handler or of a workflow run, so typing,
\* typing_stop, ai_thinking and ai_thinking_done, which carry no message, have
\* created none.
PersistenceBeforeBroadcast ==
    /\ \A i \in EventIds :
          IF events[i].ev = "new_message"
          THEN /\ events[i].msg \in 1..Len(messages)
               /\ messages[events[i].msg].chatId = events[i].chat
          ELSE events[i].msg = 0
    /\ \A m \in 1..Len(messages) : Cardinality(Creators(m)) = 1

\* C1 witness: a user message and a workflow's AI_SUMMARY message have been
\* broadcast, the run has emitted ai_thinking_done, and a typing signal was sent.
SignalsAndBroadcastsSeen ==
    /\ lastSignal.ev \in {"typing", "typing_stop"}
    /\ UserBroadcasts # {}
    /\ \E r \in SendIds : ReplyBroadcasts(r) # {} /\ RunSignals(r, "ai_thinking_done") # {}

\* C2: the new_message events of the send handlers come in the order in which their
\* messages were created (the order of the message ids).
BroadcastOrderIsCreationOrder ==
    \A i, j \in UserBroadcasts :
        (i < j /\ events[i].chat = events[j].chat) => events[i].msg < events[j].msg

\* C3: a run that has started has emitted exactly one ai_thinking, before every
\* other event of the run; a run that has ended (returned, or thrown out of its catch
\* block) has emitted exactly one ai_thinking_done, after every other event of the
\* run; a run that has not ended has emitted none.
ThinkingPaired ==
    \A r \in SendIds :
        LET thinking == RunSignals(r, "ai_thinking")
            done == RunSignals(r, "ai_thinking_done")
        IN /\ Cardinality(thinking) = (IF runs[r].pc = "idle" THEN 0 ELSE 1)
           /\ Cardinality(done) = (IF RunEnded(r) THEN 1 ELSE 0)
           /\ \A i \in thinking, j \in RunEvents(r) : i <= j
           /\ \A i \in done, j \in RunEvents(r) : j <= i

\* C3 witness: a run ended by an exception thrown while persisting the failure
\* notice, after its reply had been persisted.
RunThrownAfterReply ==
    \E r \in SendIds : runs[r].pc = "thrown" /\ runs[r].aiMessage # 0

\* C4: the connection of a send handler that succeeded has received the new_message
\* of its message exactly once.
SenderReceivesOwnMessage ==
    \A h \in SendIds :
        sends[h].pc = "sent" =>
            Cardinality({i \in BroadcastsOf(sends[h].message) :
                            sends[h].conn \in events[i].to}) = 1

\* C5: when the membership lookup of a send handler settles and the sender has no
\* ChatMember row for the chat, the handler ends there with one error event, and
\* the step creates no message, updates no recency marker, broadcasts nothing and
\* starts no workflow run; the handler does nothing afterwards.
NonMemberSendRejected ==
    [][\A h \in SendIds :
          /\ (/\ sends[h].pc = "findMember"
              /\ sends'[h].pc # "findMember"
              /\ <<sends[h].quser, sends[h].chat>> \notin members)
             => /\ sends'[h].pc \in {"notMember", "failed"}
                /\ sends'[h].errors = 1
                /\ sends'[h].message = 0
                /\ messages' = messages
                /\ updatedAt' = updatedAt
                /\ events' = events
                /\ runs' = runs
          /\ sends[h].pc = "notMember"
             => /\ sends'[h] = sends[h]
                /\ runs'[h] = runs[h]
                /\ runs[h].pc = "idle"
                /\ BroadcastsOf(sends[h].message) = {}]_vars

\* C5 witness: a wake-word message of a non-member has been rejected.
NonMemberWakeRejected ==
    \E h \in SendIds :
        /\ sends[h].pc = "notMember"
        /\ extractAICommand(sends[h].content).hit
        /\ \E u \in Users : IsMember(u, sends[h].chat)

\* C6: a send handler that emitted error because a persistence step failed has left
\* no message in the store and has broadcast none.
FailedSendLeavesNoMessage ==
    \A h \in SendIds :
        sends[h].pc = "failed" =>
            /\ sends[h].message = 0
            /\ BroadcastsOf(sends[h].message) = {}

\* C7: the send handler of a started workflow run has broadcast its own message
\* before every event of the run, has ended without waiting for the run, and its
\* connection has received no error event, however the run goes on or ends.
WorkflowFailureIsolated ==
    \A h \in SendIds :
        runs[h].pc # "idle" =>
            /\ sends[h].pc = "sent"
            /\ sends[h].errors = 0
            /\ \E i \in UserBroadcasts :
                  /\ events[i].msg = sends[h].message
                  /\ \A j \in RunEvents(h) : i < j

\* C7 witness: the completion call failed with a non-success status and persisting
\* the failure notice failed too, so the run's promise was rejected.
RunRejectedAfterApiError ==
    \E h \in SendIds :
        runs[h].pc = "thrown" /\ runs[h].err = ApiError(UpstreamStatus, UpstreamBody)

\* C8: a run that awaits the completion provider can always go on: if the provider
\* does not answer, a timeout ends the call.
ProviderCallBounded ==
    \A r \in SendIds : runs[r].pc = "callAI" => ENABLED RunStep(r)

\* C9: a run that has ended has persisted exactly one AI_SUMMARY message and has
\* broadcast exactly one.
OneReplyPerRun ==
    \A r \in SendIds :
        RunEnded(r) =>
            /\ Cardinality(RepliesOf(r)) = 1
            /\ Cardinality(ReplyBroadcasts(r)) = 1

\* C10: a run whose completion call failed with a non-success status has, when it
\* ends, persisted and broadcast one AI_SUMMARY message of the triggering user that
\* contains the status code and the error body, has appended no AISummary row and
\* has called the provider once.
StatusFailureYieldsNotice ==
    \A r \in SendIds :
        (RunEnded(r) /\ runs[r].err = ApiError(UpstreamStatus, UpstreamBody)) =>
            /\ RepliesOf(r) = {runs[r].errorMsg}
            /\ runs[r].errorMsg \in 1..Len(messages)
            /\ messages[runs[r].errorMsg].senderId = runs[r].triggerUserId
            /\ messages[runs[r].errorMsg].type = "AI_SUMMARY"
            /\ Contains(messages[runs[r].errorMsg].content, UpstreamStatus)
            /\ Contains(messages[runs[r].errorMsg].content, UpstreamBody)
            /\ Cardinality(ReplyBroadcasts(r)) = 1
            /\ runs[r].summary = 0
            /\ runs[r].calls = 1

Range(seq) == {seq[i] : i \in 1..Len(seq)}

\* The TEXT messages of the chat of run r that were created before the message
\* that triggered the run.
PriorText(r) ==
    {i \in 1..Len(messages) : /\ i < sends[r].message
                              /\ messages[i].chatId = runs[r].chatId
                              /\ messages[i].type = "TEXT"}

ThinkingOnce(r) ==
    /\ Cardinality(RunSignals(r, "ai_thinking")) = 1
    /\ Cardinality(RunSignals(r, "ai_thinking_done")) = 1

\* C12 as stated: a run whose lookup found no UserAIConfig row has, when it ends,
\* fetched no context, called no provider, persisted and broadcast exactly one
\* AI_SUMMARY message, the configuration prompt, appended no AISummary row and
\* emitted one ai_thinking and one ai_thinking_done.
NoConfigYieldsPrompt ==
    \A r \in SendIds :
        (RunEnded(r) /\ runs[r].aiConfig = NoConfig) =>
            /\ runs[r].recentMessages = <<>>
            /\ runs[r].calls = 0
            /\ runs[r].summary = 0
            /\ RepliesOf(r) = {runs[r].noConfigMsg}
            /\ runs[r].noConfigMsg \in 1..Len(messages)
            /\ messages[runs[r].noConfigMsg].content = NoConfigText
            /\ Cardinality(ReplyBroadcasts(r)) = 1
            /\ ThinkingOnce(r)

\* C12, amended: a run whose lookup found no UserAIConfig row never fetches context,
\* never calls the provider, never creates a reply from a completion and appends no
\* AISummary row; when it ends it has emitted one ai_thinking and one
\* ai_thinking_done and has persisted and broadcast at most one AI_SUMMARY message:
\* the configuration prompt when its creation succeeded, otherwise the failure
\* notice of that database error when the notice's creation succeeded, otherwise
\* none.
NoConfigYieldsPromptOrNotice ==
    \A r \in SendIds :
        runs[r].aiConfig = NoConfig =>
            /\ runs[r].recentMessages = <<>>
            /\ runs[r].calls = 0
            /\ runs[r].summary = 0
            /\ runs[r].aiMessage = 0
            /\ RunEnded(r) =>
                  /\ ThinkingOnce(r)
                  /\ Cardinality(ReplyBroadcasts(r)) = Cardinality(RepliesOf(r))
                  /\ \A i \in ReplyBroadcasts(r) : events[i].msg \in RepliesOf(r)
                  /\ IF runs[r].noConfigMsg # 0
                     THEN /\ RepliesOf(r) = {runs[r].noConfigMsg}
                          /\ messages[runs[r].noConfigMsg] = AIMessage(r, NoConfigText)
                     ELSE IF runs[r].pc = "returned"
                     THEN /\ RepliesOf(r) = {runs[r].errorMsg}
                          /\ messages[runs[r].errorMsg] = AIMessage(r, NoticeText(DbError))
                     ELSE RepliesOf(r) = {}

\* C12 witness: a run of a user without configuration has ended after broadcasting
\* the configuration prompt.
NoConfigPromptSent ==
    \E r \in SendIds :
        /\ runs[r].pc = "returned"
        /\ runs[r].aiConfig = NoConfig
        /\ runs[r].noConfigMsg # 0
        /\ ReplyBroadcasts(r) # {}

\* C13: no step removes or changes an AISummary row, and a step appends at most
\* one; the step that appends a row is the step of a run that has appended none
\* before, whose completion call returned a reply without any failure, whose
\* AI_SUMMARY message holding that reply is in the store and has been broadcast, and
\* the row carries the run's chat and triggering user; a run that has appended its
\* row keeps it.
SummaryAppendedOnceAfterReply ==
    [][/\ Len(aiSummaries') \in {Len(aiSummaries), Len(aiSummaries) + 1}
       /\ SubSeq(aiSummaries', 1, Len(aiSummaries)) = aiSummaries
       /\ \A r \in SendIds : runs[r].summary # 0 => runs'[r].summary = runs[r].summary
       /\ Len(aiSummaries') = Len(aiSummaries) + 1 =>
             \E r \in SendIds :
                LET row == aiSummaries'[Len(aiSummaries')] IN
                /\ runs[r].summary = 0
                /\ runs'[r].summary = Len(aiSummaries')
                /\ \A x \in SendIds \ {r} : runs'[x].summary # Len(aiSummaries')
                /\ runs[r].calls = 1
                /\ runs[r].err = <<>>
                /\ runs[r].aiResponse # <<>>
                /\ runs[r].aiMessage \in 1..Len(messages)
                /\ messages[runs[r].aiMessage] = AIMessage(r, runs[r].aiResponse)
                /\ \E i \in ReplyBroadcasts(r) : events[i].msg = runs[r].aiMessage
                /\ row.chatId = runs[r].chatId
                /\ row.triggeredById = runs[r].triggerUserId
                /\ row.text = runs[r].aiResponse]_vars

\* C13 witness: a run has appended its AISummary row after the row of an earlier
\* run.
SummaryAppendedAfterEarlierOne ==
    \E r \in SendIds :
        /\ runs[r].summary >= 2
        /\ aiSummaries[1] = PriorSummary

\* C14: the step of an authenticate handler whose token fails verification emits
\* error to the socket and nothing else, ends the handler, and leaves every
\* connection's userId, the registry, the joined rooms and the connections
\* themselves as they were; the handler does nothing afterwards.
BadTokenRejected ==
    [][\A a \in AuthIds :
          /\ (auths[a].pc = "idle" /\ auths'[a].pc # "idle" /\ auths'[a].token = BadToken)
             => /\ auths'[a].pc = "rejected"
                /\ auths'[a].emitted = <<"error">>
                /\ userId' = userId
                /\ onlineUsers' = onlineUsers
                /\ joined' = joined
                /\ connected' = connected
          /\ auths[a].pc = "rejected" => auths'[a] = auths[a]]_vars

\* C14 witness: a connection whose authenticate was rejected is still connected and
\* has no userId.
RejectedStaysAnonymous ==
    \E a \in AuthIds :
        /\ auths[a].pc = "rejected"
        /\ auths[a].token = BadToken
        /\ connected[auths[a].conn]
        /\ userId[auths[a].conn] = NoUser

\* C16: once a connection has a userId, no step changes it.
IdentityFixedOnceSet ==
    [][\A c \in Conns : userId[c] # NoUser => userId'[c] = userId[c]]_vars

\* The authenticate handler runs that verified a token of user u, and the last of
\* them.
AuthsAs(u) == {a \in AuthIds : auths[a].quser = u}
LastAuthAs(u) == CHOOSE a \in AuthsAs(u) : \A b \in AuthsAs(u) : b <= a

\* C17: while none of the connections that authenticated as user u has
\* disconnected, the registry's entry for u is the connection whose authenticate
\* was processed last.
RegistryHoldsLastAuthenticated ==
    \A u \in Users :
        (/\ AuthsAs(u) # {}
         /\ \A a \in AuthsAs(u) : connected[auths[a].conn])
            => onlineUsers[u] = auths[LastAuthAs(u)].conn

\* C17 witness: two connections have authenticated as the same user and both
\* handlers have finished.
TwoConnectionsOneUser ==
    \E a, b \in AuthIds :
        /\ a < b
        /\ auths[a].pc = "done" /\ auths[b].pc = "done"
        /\ auths[a].quser = auths[b].quser
        /\ auths[a].conn # auths[b].conn
        /\ connected[auths[a].conn] /\ connected[auths[b].conn]

\* C18: the step in which a connection with a userId disconnects removes that user
\* from the registry; when the lastSeenAt update then settles, resolved or rejected,
\* the handler broadcasts user_offline of that user once, to every other connected
\* socket, and ends for good.  The disconnect of a connection without userId changes
\* only the connection: registry unchanged, nothing written, nothing broadcast.
DisconnectBroadcastsOffline ==
    [][\A c \in Conns :
          /\ (connected[c] /\ ~connected'[c] /\ userId[c] # NoUser)
             => /\ onlineUsers'[userId[c]] = NoConn
                /\ \A u \in Users \ {userId[c]} : onlineUsers'[u] = onlineUsers[u]
                /\ closes'[c] = [IdleClose EXCEPT !.pc = "lastSeen", !.user = userId[c]]
          /\ (connected[c] /\ ~connected'[c] /\ userId[c] = NoUser)
             => /\ onlineUsers' = onlineUsers
                /\ closes'[c] = [IdleClose EXCEPT !.pc = "done"]
          /\ (closes[c].pc = "lastSeen" /\ closes'[c] # closes[c])
             => /\ closes'[c].pc = "done"
                /\ closes'[c].offline = 1
                /\ closes'[c].user = closes[c].user
                /\ closes'[c].to = {d \in Conns \ {c} : connected[d]}
                /\ onlineUsers' = onlineUsers
          /\ closes[c].pc = "done" => closes'[c] = closes[c]]_vars

\* C18 witness: a connection with a userId has disconnected, its lastSeenAt update
\* failed, and user_offline reached the other connection.
OfflineSentDespiteFailedUpdate ==
    \E c \in Conns :
        /\ closes[c].pc = "done"
        /\ closes[c].user # NoUser
        /\ closes[c].seen = 0
        /\ closes[c].offline = 1
        /\ closes[c].to # {}

\* C15: every send_message, typing_start, typing_stop and mark_read handler that
\* ran on a connection without userId has emitted one error event to its socket,
\* and has persisted and delivered nothing.
UnauthenticatedEventsRejected ==
    /\ \A h \in SendIds :
          (sends[h].pc # "idle" /\ sends[h].quser = NoUser) =>
              /\ sends[h].errors = 1
              /\ sends[h].message = 0
    /\ \A q \in ReqIds :
          (reqs[q].pc # "idle" /\ reqs[q].quser = NoUser) =>
              /\ reqs[q].errors = 1
              /\ reqs[q].ev = "none"
              /\ reqs[q].to = {}

\* C19: a typing_start, typing_stop or mark_read handler that starts for a user
\* without ChatMember row for the chat delivers no event to the room, and has
\* emitted one error event to its socket when it ends, without writing a read
\* marker; a send_message handler whose membership lookup finds no row ends with
\* one error event, no message and no broadcast.
NonMemberEventsRejected ==
    [][/\ \A q \in ReqIds :
             /\ (/\ reqs[q].pc = "idle" /\ reqs'[q].pc # "idle"
                 /\ reqs'[q].quser # NoUser
                 /\ <<reqs'[q].quser, reqs'[q].chat>> \notin members)
                => /\ reqs'[q].ev = "none"
                   /\ reqs'[q].to = {}
                   /\ reqs'[q].pc = "update" \/ reqs'[q].errors = 1
             /\ (/\ reqs[q].pc = "update" /\ reqs'[q].pc # "update"
                 /\ <<reqs[q].quser, reqs[q].chat>> \notin members)
                => /\ reqs'[q].errors = 1
                   /\ reqs'[q].ev = "none"
                   /\ reqs'[q].to = {}
                   /\ lastReadAt' = lastReadAt
       /\ \A h \in SendIds :
             (/\ sends[h].pc = "findMember" /\ sends'[h].pc # "findMember"
              /\ <<sends[h].quser, sends[h].chat>> \notin members)
                => /\ sends'[h].errors = 1
                   /\ sends'[h].message = 0
                   /\ messages' = messages
                   /\ events' = events]_vars

\* A typing signal that names a user without ChatMember row for the chat has
\* reached a socket of the chat's room.
NonMemberSignalDelivered ==
    \E q \in ReqIds :
        /\ reqs[q].pc = "emitted"
        /\ reqs[q].to # {}
        /\ <<reqs[q].user, reqs[q].chat>> \notin members

\* The positions of the characters of S that are not whitespace.
Inked(S) == {i \in 1..Len(S) : S[i] \notin {" ", "\t", "\n"}}
FirstOf(P) == CHOOSE i \in P : \A j \in P : i <= j
LastOf(P) == CHOOSE i \in P : \A j \in P : j <= i

\* S without its leading and trailing whitespace starts with '@', then 'a' or 'A',
\* then 'i' or 'I'.
Triggers(S) ==
    /\ Inked(S) # {}
    /\ LET first == FirstOf(Inked(S)) IN
       /\ first + 2 <= LastOf(Inked(S))
       /\ S[first] = "@"
       /\ S[first + 1] \in {"a", "A"}
       /\ S[first + 2] \in {"i", "I"}

\* What follows those three characters, from its first to its last character
\* that is not whitespace.
CommandOf(S) ==
    LET rest == {i \in Inked(S) : i >= FirstOf(Inked(S)) + 3} IN
    IF rest = {} THEN <<>> ELSE SubSeq(S, FirstOf(rest), LastOf(rest))

\* C20: for the body S of every send_message, extractAICommand(S) is a hit exactly
\* when S, trimmed, starts with the wake word in any case, and then its command is
\* the rest of the trimmed body, trimmed; a send handler that succeeded has started
\* a workflow run exactly in that case, with that command.
DetectorAnchoredAtStart ==
    \A h \in SendIds :
        sends[h].pc # "idle" =>
            LET S == sends[h].content
                found == extractAICommand(S)
            IN /\ found.hit <=> Triggers(S)
               /\ found.hit => found.command = CommandOf(S)
               /\ sends[h].pc = "sent" =>
                     /\ (runs[h].pc # "idle") <=> Triggers(S)
                     /\ runs[h].pc # "idle" => runs[h].command = CommandOf(S)

\* C20 witness: a body with whitespace before the wake word, the wake word in upper
\* case and a command after it has started a run.
WakeWordDetectedAfterBlank ==
    \E h \in SendIds :
        /\ sends[h].pc = "sent"
        /\ sends[h].content = <<" ", "@", "A", "I", "x">>
        /\ runs[h].command = <<"x">>

Settings(body) ==
    <<body.provider, body.model, IF body.baseUrl = "" THEN NoBaseUrl ELSE body.baseUrl>>

SettingsOf(row) == <<row.provider, row.model, row.baseUrl>>

\* C22: the UserAIConfig table holds one row or none per user.  A user's row changes
\* only in a step that answers a PUT of that user with 200, and then it holds the
\* provider, model and endpoint override of that request, no other user's row
\* changing; a PUT answered otherwise changes no row.  A GET answered with 200
\* returns null when the user has no row, else the provider, model and endpoint
\* override of the user's row, which is therefore the user's last successful write.
ConfigReadsLastWrite ==
    [][/\ \A u \in Users :
             aiConfig'[u] # aiConfig[u]
                => /\ lastReply'.route = "PUT" /\ lastReply'.user = u
                   /\ lastReply'.status = "200"
                   /\ SettingsOf(aiConfig'[u]) = Settings(lastReply'.body)
                   /\ \A v \in Users \ {u} : aiConfig'[v] = aiConfig[v]
       /\ (lastReply' # lastReply /\ lastReply'.route = "PUT")
             => IF lastReply'.status = "200"
                THEN /\ SettingsOf(aiConfig'[lastReply'.user]) = Settings(lastReply'.body)
                     /\ SettingsOf(lastReply'.config) = Settings(lastReply'.body)
                ELSE aiConfig' = aiConfig
       /\ (lastReply' # lastReply /\ lastReply'.route = "GET")
             => /\ aiConfig' = aiConfig
                /\ lastReply'.status = "200"
                      => IF aiConfig[lastReply'.user] = NoConfig
                         THEN lastReply'.config = NullView
                         ELSE SettingsOf(lastReply'.config)
                                 = SettingsOf(aiConfig[lastReply'.user])]_vars

\* C22 witness: u1 reads back settings saved with an empty endpoint override after
\* u2 saved different ones.
ConfigReadBackBesideAnother ==
    /\ lastReply.route = "GET" /\ lastReply.user = "u1" /\ lastReply.status = "200"
    /\ SettingsOf(lastReply.config) = <<"claude", "m", NoBaseUrl>>
    /\ SettingsOf(aiConfig["u2"]) = <<"deepseek", "m", "http://proxy">>

\* A request body PUT /config has to reject.
Unacceptable(body) ==
    \/ body.provider \notin RegisteredProviders
    \/ body.provider = "" \/ body.model = "" \/ body.apiKey = <<>>

\* C23: a PUT /config whose provider is not in the registry, or that lacks
\* provider, model or key, is answered 400 and changes no stored row; so in
\* every state every stored row, and the row every run loaded, names a
\* registered provider, and no run fails with callAI's unknown-provider error.
OnlyRegisteredProvidersStored ==
    /\ [][(lastReply' # lastReply /\ lastReply'.route = "PUT"
              /\ Unacceptable(lastReply'.body))
             => lastReply'.status = "400" /\ aiConfig' = aiConfig]_vars
    /\ [](\A u \in Users :
             aiConfig[u] # NoConfig => aiConfig[u].provider \in RegisteredProviders)
    /\ [](\A r \in SendIds :
             /\ runs[r].aiConfig \notin {NoConfig, PendingConfig}
                   => runs[r].aiConfig.provider \in RegisteredProviders
             /\ \A body \in ConfigBodies :
                   runs[r].err # UnknownProvider(body.provider))

\* C23 witness: a write naming an unregistered provider was refused while a run
\* that loaded the stored row has got past callAI's provider lookup.
UnknownProviderRefusedDuringRun ==
    /\ lastReply.route = "PUT" /\ lastReply.body.provider = "bogus"
    /\ lastReply.body.model # "" /\ lastReply.body.apiKey # <<>>
    /\ lastReply.status = "400"
    /\ \E r \in SendIds : runs[r].pc = "callAI" /\ runs[r].aiConfig = aiConfig["u1"]

\* C24: the key shown by a response of GET /config or PUT /config that carries a
\* config is a proper prefix of the caller's stored key followed by the stars,
\* never the whole key.
ResponsesShowProperPrefixOnly ==
    (lastReply.status = "200" /\ lastReply.config # NullView)
        => LET key == aiConfig[lastReply.user].apiKey
           IN \E n \in 0..(Len(key) - 1) :
                 lastReply.config.apiKey = SubSeq(key, 1, n) \o Stars

\* C25: when a run has ended, the events of its room are, in this order, the
\* new_message of the triggering message, the run's ai_thinking, the run's one
\* AI_SUMMARY new_message and the run's ai_thinking_done, and the run has emitted
\* nothing else.
RunEventsInOrder ==
    \A r \in SendIds :
        RunEnded(r) =>
            \E t, a, b, c \in EventIds :
                /\ t < a /\ a < b /\ b < c
                /\ t \in UserBroadcasts /\ events[t].msg = sends[r].message
                /\ RunEvents(r) = {a, b, c}
                /\ events[a].ev = "ai_thinking"
                /\ events[b].ev = "new_message"
                /\ events[c].ev = "ai_thinking_done"

\* The order alone: every AI_SUMMARY new_message of a run comes after the
\* triggering message's new_message and the run's ai_thinking, and before the run's
\* ai_thinking_done.
RepliesBetweenSignals ==
    \A r \in SendIds : \A b \in ReplyBroadcasts(r) :
        /\ \E t \in UserBroadcasts, a \in RunSignals(r, "ai_thinking") :
              events[t].msg = sends[r].message /\ t < a /\ a < b
        /\ \A c \in RunSignals(r, "ai_thinking_done") : b < c

\* C26: in the step in which the membership load of an authenticate handler
\* succeeds, the handler joins the rooms of exactly the chats the user has a
\* ChatMember row for, a connected socket is in each of these rooms afterwards and
\* has entered no other room, authenticated is emitted in that step and not
\* before, to that socket only, and user_online goes to every other connected
\* socket and not to the socket itself.
AuthenticatedJoinsMemberships ==
    [][\A a \in AuthIds :
          (auths[a].pc = "load" /\ auths'[a].pc = "done")
             => LET c == auths[a].conn
                    loaded == {ch \in Chats : <<auths[a].quser, ch>> \in members}
                IN /\ auths'[a].rooms = loaded
                   /\ connected[c]
                         => /\ \A ch \in loaded : ch \in joined'[c]
                            /\ joined'[c] \ joined[c] \subseteq loaded
                   /\ auths[a].emitted = <<>>
                   /\ auths'[a].emitted = <<"authenticated", "user_online">>
                   /\ auths'[a].ackTo = {c}
                   /\ auths'[a].onlineTo = {d \in Conns : connected[d]} \ {c}]_vars

\* C26 witness: a user with a chat has authenticated while another socket was
\* connected: the socket is in the chat's room and the other socket got
\* user_online.
AuthenticatedBesideAnother ==
    \E a \in AuthIds :
        /\ auths[a].pc = "done"
        /\ auths[a].rooms # {}
        /\ auths[a].rooms \subseteq joined[auths[a].conn]
        /\ auths[a].onlineTo # {}

\* C27: a connection whose authenticate handlers have all ended by emitting error
\* has no userId and no entry of the registry holds its handle.
AuthenticateAllOrNothing ==
    \A c \in Conns :
        LET mine == {a \in AuthIds : auths[a].conn = c} IN
        (mine # {} /\ \A a \in mine : auths[a].emitted = <<"error">>)
            => /\ userId[c] = NoUser
               /\ \A u \in Users : onlineUsers[u] # c

\* The connected sockets whose userId is u and that got authenticated as u.
ConnectedAs(u) ==
    {c \in Conns : /\ connected[c] /\ userId[c] = u
                   /\ \E a \in AuthIds : /\ auths[a].conn = c /\ auths[a].quser = u
                                         /\ auths[a].pc = "done"}

\* C28: while a connected socket is authenticated as u, the registry has an entry
\* for u and the entry holds the handle of such a socket; so the entry survives
\* the disconnect of another socket of u.
RegistryEntryWhileConnected ==
    \A u \in Users :
        ConnectedAs(u) # {}
            => /\ onlineUsers[u] # NoConn
               /\ connected[onlineUsers[u]]
               /\ userId[onlineUsers[u]] = u

\* C29: an authenticate handler joins rooms and emits authenticated and
\* user_online only while its socket is connected, and never after the socket's
\* user_offline has been broadcast.
NothingAfterDisconnect ==
    [][\A a \in AuthIds :
          (auths'[a].emitted # auths[a].emitted
              /\ Contains(auths'[a].emitted, "user_online"))
             => /\ connected[auths[a].conn]
                /\ closes[auths[a].conn].offline = 0]_vars

\* C30: every room a connection is in belongs to a chat its current userId has a
\* ChatMember row for.
RoomsOfCurrentIdentity ==
    \A c \in Conns : \A ch \in joined[c] : <<userId[c], ch>> \in members

\* Whether the handler or run that made a message.create call has finished.
Finished(creator) ==
    IF creator[1] = "send" THEN sends[creator[2]].pc \in {"sent", "failed"}
    ELSE RunEnded(creator[2])

\* C31: once the handler or run that created a message has finished, the message
\* has been broadcast to its room as new_message exactly once.
EveryMessageBroadcastOnce ==
    \A m \in 1..Len(messages) :
        (\A creator \in Creators(m) : Finished(creator))
            => Cardinality(BroadcastsOf(m)) = 1

\* C32: every AI_SUMMARY message in the store was created by a run of
\* handleAIWakeup.
AISummaryOnlyFromWorkflow ==
    \A m \in 1..Len(messages) :
        messages[m].type = "AI_SUMMARY" => \E r \in SendIds : m \in RepliesOf(r)

\* C33: when the context query of a run settles and the run goes on to callAI, the
\* context holds at most 30 messages, all of type TEXT and of the run's chat, in
\* ascending order of creation, and every TEXT message of the chat that is left out
\* is older than every message of the context, which then holds 30.
ContextIsNewestThirty ==
    [][\A r \in SendIds :
          (runs[r].pc = "context" /\ runs'[r].pc = "callAI")
             => LET ctx == runs'[r].recentMessages
                    text == {i \in 1..Len(messages) :
                                /\ messages[i].type = "TEXT"
                                /\ messages[i].chatId = runs[r].chatId}
                IN /\ Len(ctx) <= 30
                   /\ Range(ctx) \subseteq text
                   /\ \A k \in 1..(Len(ctx) - 1) : ctx[k] < ctx[k + 1]
                   /\ \A j \in text \ Range(ctx) :
                         /\ Len(ctx) = 30
                         /\ \A k \in 1..Len(ctx) : j < ctx[k]]_vars

\* C33 witness: a run got a context of 30 messages that leaves out an older TEXT
\* message of the chat and skips a message of another type or chat lying between
\* the messages it holds.
ContextTruncatedAndFiltered ==
    \E r \in SendIds :
        /\ runs[r].pc = "callAI"
        /\ Len(runs[r].recentMessages) = ContextLimit
        /\ \E j \in 1..Len(messages) :
              /\ messages[j].type = "TEXT" /\ messages[j].chatId = runs[r].chatId
              /\ j < runs[r].recentMessages[1]
        /\ \E j \in 1..Len(messages) :
              /\ messages[j].type # "TEXT" \/ messages[j].chatId # runs[r].chatId
              /\ runs[r].recentMessages[1] < j
              /\ j < runs[r].recentMessages[ContextLimit]

IsWakeToken(S) ==
    /\ Cardinality(Inked(S)) = 3
    /\ LET p == FirstOf(Inked(S))
       IN /\ Inked(S) = {p, p + 1, p + 2}
          /\ S[p] = "@" /\ S[p + 1] \in {"a", "A"} /\ S[p + 2] \in {"i", "I"}

\* C35: a sent message whose body is the wake word alone has started a run with
\* the empty command, and a message that started no run is not the wake word
\* alone; the user message a run hands to the provider ends with the fixed
\* greet-and-ask instruction when the body was the wake word alone, and with the
\* run's non-empty command otherwise.
WakeTokenAloneGreets ==
    \A h \in SendIds :
        /\ (sends[h].pc = "sent" /\ IsWakeToken(sends[h].content))
              => /\ runs[h].pc # "idle"
                 /\ runs[h].command = <<>>
        /\ (sends[h].pc = "sent" /\ runs[h].pc = "idle")
              => ~IsWakeToken(sends[h].content)
        /\ runs[h].calls > 0
              => IF IsWakeToken(sends[h].content)
                 THEN runs[h].userMessage.instruction
                         = <<"[instruction]">> \o GreetInstruction
                 ELSE /\ runs[h].command # <<>>
                      /\ runs[h].userMessage.instruction
                            = <<"[instruction]">> \o runs[h].command

\* C35 witness: the provider was called for a message that is the wake word in
\* mixed case between blanks.
WakeTokenAloneReachedProvider ==
    \E h \in SendIds :
        /\ sends[h].content = <<" ", "@", "A", "i", " ">>
        /\ runs[h].calls = 1
        /\ runs[h].upstream = "reply"

\* C36: the mark_read handler of an authenticated connection asks to update the
\* read marker of the connection's user and the named chat.  When the update
\* succeeds, that marker alone changes and message_read goes to the other sockets
\* of the room, not to the caller.  When it fails, no marker changes, nothing is
\* emitted, the socket gets no error event, and the connection stays connected
\* with its userId.
MarkReadOwnMarkerOrSwallowed ==
    [][\A q \in ReqIds :
          /\ (reqs[q].pc = "idle" /\ reqs'[q].pc = "update")
                => reqs'[q].quser = userId[reqs'[q].conn]
          /\ (reqs[q].pc = "update" /\ reqs'[q].pc = "read")
                => LET own == <<reqs[q].quser, reqs[q].chat>>
                   IN /\ lastReadAt'[own] > lastReadAt[own]
                      /\ \A m \in (Users \X Chats) \ {own} : lastReadAt'[m] = lastReadAt[m]
                      /\ reqs'[q].ev = "message_read"
                      /\ reqs'[q].to = {c \in Conns : reqs[q].chat \in joined[c]}
                                          \ {reqs[q].conn}
                      /\ reqs'[q].errors = 0
          /\ (reqs[q].pc = "update" /\ reqs'[q].pc \notin {"update", "read"})
                => /\ reqs'[q].pc = "swallowed"
                   /\ lastReadAt' = lastReadAt
                   /\ reqs'[q].ev = "none" /\ reqs'[q].to = {}
                   /\ reqs'[q].errors = 0
                   /\ userId' = userId /\ connected' = connected /\ joined' = joined]_vars

\* C36 witness: after a mark_read of a connection failed, a later mark_read of
\* the same connection was processed and its receipt reached another socket.
MarkReadAfterSwallowedOne ==
    \E q1, q2 \in ReqIds :
        /\ q1 < q2 /\ reqs[q1].conn = reqs[q2].conn
        /\ reqs[q1].pc = "swallowed" /\ IsMember(reqs[q1].quser, reqs[q1].chat)
        /\ reqs[q2].pc = "read" /\ reqs[q2].to # {}

\* C37: a typing_start or typing_stop handler of an authenticated connection
\* delivers its signal to every socket in the room but the sender's, sends the
\* sender's socket nothing, and leaves the messages, the chats' updatedAt, the
\* read markers, the registry and the rooms as they were.
TypingReachesOthersOnly ==
    [][\A q \in ReqIds :
          (reqs[q].pc = "idle" /\ reqs'[q].pc = "emitted")
             => /\ reqs'[q].op \in {"typing", "typing_stop"}
                /\ reqs'[q].ev = reqs'[q].op
                /\ reqs'[q].to = {c \in Conns : reqs'[q].chat \in joined[c]}
                                    \ {reqs'[q].conn}
                /\ lastSignal'.to = reqs'[q].to
                /\ reqs'[q].errors = 0
                /\ messages' = messages /\ updatedAt' = updatedAt
                /\ lastReadAt' = lastReadAt /\ onlineUsers' = onlineUsers
                /\ joined' = joined /\ events' = events]_vars

\* C37 witness: a connection that is in the room itself sent a typing signal that
\* reached another socket.
TypingFromRoomMember ==
    \E q \in ReqIds :
        /\ reqs[q].pc = "emitted"
        /\ reqs[q].chat \in joined[reqs[q].conn]
        /\ reqs[q].to # {}

\* C38: a disconnect handler broadcasts user_offline for a user only when no
\* connected socket is authenticated as that user.
OfflineOnlyForLastConnection ==
    [][\A c \in Conns :
          closes'[c].offline > closes[c].offline
             => ConnectedAs(closes'[c].user) = {}]_vars

\* The DIRECT chats created by accepting request id.
ChatsOf(id) == {n \in 1..Len(directChats) : directChats[n].request = id}

\* C39: an accepted friend request has created exactly one DIRECT chat, whose
\* members are its two users, a request that is not accepted has created none,
\* and no two DIRECT chats created by acceptance have the same two users.
OneDirectChatPerAcceptance ==
    /\ \A id \in RequestIds :
          /\ Cardinality(ChatsOf(id)) = (IF friendRequests[id] = "ACCEPTED" THEN 1 ELSE 0)
          /\ \A n \in ChatsOf(id) :
                {u \in Users : <<u, n>> \in members} = {id[1], id[2]}
    /\ \A n, m \in 1..Len(directChats) :
          directChats[n].users = directChats[m].users => n = m

====
